---- MODULE Spec2Model ----
(***************************************************************************)
(* Model of the DFTB+ optimization service (go-service):                   *)
(*   - the CIF structure parser (internal/parser, CIFParser),              *)
(*   - the job pipeline DFTBRunner.RunOptimization with its engine         *)
(*     subprocess, waiting goroutine and timeout select,                   *)
(*   - the status lookup DFTBRunner.GetStatus,                             *)
(*   - the HTTP handlers optimizeStructure and getStatus.                  *)
(*                                                                         *)
(* A text is a sequence of lines; a line is the sequence of the fields of   *)
(* the trimmed line, so the blank line is << >>.  Two fields that follow   *)
(* one another are separated by white space with a space character in it;  *)
(* two fields with the element Tab between them are separated by tab       *)
(* characters only.  Prefix tests of the code (strings.HasPrefix) are      *)
(* membership tests in the token classes below.                            *)
(***************************************************************************)
EXTENDS Integers, Sequences, FiniteSets, TLC

\* ------------------------------------------------------------------ bounds
\* Longest free-form text (in lines) the parser is run on.
MaxLines == 3
\* Most data rows in the atom-site loop of a structured text.
MaxRows == 2
\* Most atom sites of a structure given to the engine-input synthesis.
MaxSites == 3
\* Longest time, in hours, the age of a job directory is counted up to.
MaxHours == 26

\* ------------------------------------------------------- token vocabulary
CommentTokens == {"#c"}
DataTokens == {"data_test", "data_two", "data_"}
LoopTokens == {"loop_"}
CellLengthKeys == {"_cell_length_a", "_cell_length_b", "_cell_length_c"}
CellAngleKeys == {"_cell_angle_alpha", "_cell_angle_beta", "_cell_angle_gamma"}
atomSiteHeaders ==
    <<"_atom_site_label", "_atom_site_type_symbol", "_atom_site_fract_x",
      "_atom_site_fract_y", "_atom_site_fract_z">>
symmetryHeaders ==
    <<"_symmetry_equiv_pos_as_xyz_x", "_symmetry_equiv_pos_as_xyz_y",
      "_symmetry_equiv_pos_as_xyz_z">>
UnderscoreTokens ==
    CellLengthKeys \cup CellAngleKeys
      \cup {atomSiteHeaders[i] : i \in 1..5}
      \cup {symmetryHeaders[i] : i \in 1..3}
      \cup {"_atom_site_u_iso_or_equiv", "_atom_site_adp_type",
            "_chemical_name_common"}

Range(s) == {s[i] : i \in 1..Len(s)}

\* the element of a line that stands for a separation by tabs only
Tab == "\t"
\* a field of 64 KiB: a line with it is longer than the buffer of
\* bufio.Scanner (bufio.MaxScanTokenSize)
LongField == "<64 KiB>"
TooLong(line) == LongField \in Range(line)

\* strings.Fields(line)
Fields(line) == SelectSeq(line, LAMBDA e : e # Tab)
\* the place of the first space character of a line: the first element
\* that is followed by a field with no Tab between; 0 when the line has no
\* space
FirstSpace(line) ==
    LET at == {i \in 1..(Len(line) - 1) : line[i] # Tab /\ line[i + 1] # Tab}
    IN  IF at = {} THEN 0 ELSE CHOOSE i \in at : \A j \in at : i <= j
\* strings.Contains(line, " ")
ContainsSpace(line) == FirstSpace(line) > 0
\* strings.TrimSpace(strings.SplitN(line, " ", 2)[0]), a string: one field,
\* or fields joined by tabs
TabJoinTable ==
    [k \in {<<"title", Tab, "\"y\"">>} |-> "title\t\"y\""]
KeyOf(line) ==
    LET part == SubSeq(line, 1, FirstSpace(line))
    IN  IF Len(part) = 1 THEN part[1]
        ELSE IF part \in DOMAIN TabJoinTable THEN TabJoinTable[part]
        ELSE "<fields joined by tabs>"
\* strings.TrimSpace(strings.SplitN(line, " ", 2)[1])
ValueOf(line) == SubSeq(line, FirstSpace(line) + 1, Len(line))

\* strings.HasPrefix(line, p) on a trimmed line: decided by its first field.
HasPrefixIn(line, class) == Len(line) > 0 /\ line[1] \in class

\* strings.TrimPrefix(tok, "data_")
TrimDataPrefix(tok) ==
    CASE tok = "data_test" -> "test"
      [] tok = "data_two" -> "two"
      [] OTHER -> ""

\* strconv.ParseFloat on the tokens of the vocabulary, in thousandths;
\* a token outside the table does not parse.
FloatTable ==
    [t \in {"0", "0.5", "10", "90", "0.25"} |->
        CASE t = "0" -> 0
          [] t = "0.5" -> 500
          [] t = "0.25" -> 250
          [] t = "10" -> 10000
          [] t = "90" -> 90000]
ParseFloatOk(value) == Len(value) = 1 /\ value[1] \in DOMAIN FloatTable
ParseFloat(value) == FloatTable[value[1]]

\* The quote stripping of a key/value line: a value that starts and ends
\* with the same quote character loses its delimiting quotes.
QuoteTable ==
    [t \in {"'x'", "\"y\""} |-> IF t = "'x'" THEN "x" ELSE "y"]
StripQuotes(value) ==
    IF Len(value) = 1 /\ value[1] \in DOMAIN QuoteTable
    THEN <<QuoteTable[value[1]]>>
    ELSE value

\* ---------------------------------------------------------- parser state
EmptyMap == [k \in {} |-> 0]
\* &types.CIFFile{} with the three maps made (lines 59-63)
NewDataBlock(name) ==
    [Name |-> name, CellLength |-> EmptyMap, CellAngle |-> EmptyMap,
     AtomSites |-> << >>, Symmetry |-> << >>, Metadata |-> EmptyMap]
\* the zero CIFFile (line 37)
ZeroCIF == NewDataBlock(<<"">>)

MapPut(m, k, v) == [x \in DOMAIN m \cup {k} |-> IF x = k THEN v ELSE m[x]]

\* the locals of ParseFromString (lines 37-41); hasBlock is
\* currentDataBlock != nil, panicked a nil-pointer dereference
\* scanErr is scanner.Err() != nil
InitParse ==
    [hasBlock |-> FALSE, block |-> ZeroCIF, inLoop |-> FALSE,
     loopHeaders |-> << >>, loopData |-> << >>, panicked |-> FALSE,
     scanErr |-> FALSE]

containsAllHeaders(headers, required) ==
    \A i \in 1..Len(required) : <<required[i]>> \in Range(headers)

\* index of the header line h in headers (the last one wins in the switch
\* of processLoopData, which runs over all headers); 0 when absent
HeaderValue(headers, row, h, default) ==
    LET idx == {i \in 1..Len(headers) : headers[i] = <<h>> /\ i <= Len(row)}
    IN  IF idx = {} THEN default
        ELSE row[CHOOSE i \in idx : \A j \in idx : j <= i]
HeaderFloat(headers, row, h) ==
    LET idx == {i \in 1..Len(headers) :
                   /\ headers[i] = <<h>>
                   /\ i <= Len(row)
                   /\ ParseFloatOk(<<row[i]>>)}
    IN  IF idx = {} THEN 0
        ELSE ParseFloat(<<row[CHOOSE i \in idx : \A j \in idx : j <= i]>>)

AtomSiteOf(headers, row) ==
    [Label |-> HeaderValue(headers, row, "_atom_site_label", ""),
     TypeSymbol |-> HeaderValue(headers, row, "_atom_site_type_symbol", ""),
     FractX |-> HeaderFloat(headers, row, "_atom_site_fract_x"),
     FractY |-> HeaderFloat(headers, row, "_atom_site_fract_y"),
     FractZ |-> HeaderFloat(headers, row, "_atom_site_fract_z"),
     UIsoOrEquiv |-> HeaderFloat(headers, row, "_atom_site_u_iso_or_equiv"),
     AdpType |-> HeaderValue(headers, row, "_atom_site_adp_type", "")]
SymmetryOf(headers, row) ==
    [X |-> HeaderValue(headers, row, "_symmetry_equiv_pos_as_xyz_x", ""),
     Y |-> HeaderValue(headers, row, "_symmetry_equiv_pos_as_xyz_y", ""),
     Z |-> HeaderValue(headers, row, "_symmetry_equiv_pos_as_xyz_z", "")]

processLoopData(block, headers, data) ==
    LET withAtoms ==
            IF containsAllHeaders(headers, atomSiteHeaders)
            THEN [block EXCEPT !.AtomSites =
                     @ \o [i \in 1..Len(data) |-> AtomSiteOf(headers, data[i])]]
            ELSE block
    IN  IF containsAllHeaders(headers, symmetryHeaders)
        THEN [withAtoms EXCEPT !.Symmetry =
                 @ \o [i \in 1..Len(data) |-> SymmetryOf(headers, data[i])]]
        ELSE withAtoms

\* the scanner loop with a data_ line renaming the block in progress
\* instead of starting a new one
ParseStepKeepBlock(s, line) ==
    LET key == KeyOf(line)
        value == StripQuotes(ValueOf(line))
    IN
    IF line = << >> \/ HasPrefixIn(line, CommentTokens) THEN s
    ELSE IF HasPrefixIn(line, DataTokens) THEN
        [s EXCEPT !.hasBlock = TRUE,
                  !.block = IF s.hasBlock
                            THEN [s.block EXCEPT !.Name =
                                     <<TrimDataPrefix(line[1])>> \o Tail(line)]
                            ELSE NewDataBlock(<<TrimDataPrefix(line[1])>> \o Tail(line)),
                  !.inLoop = FALSE, !.loopHeaders = << >>, !.loopData = << >>]
    ELSE IF HasPrefixIn(line, LoopTokens) THEN
        [s EXCEPT !.inLoop = TRUE, !.loopHeaders = << >>, !.loopData = << >>]
    ELSE IF s.inLoop THEN
        IF HasPrefixIn(line, UnderscoreTokens) THEN
            [s EXCEPT !.loopHeaders = Append(@, line)]
        ELSE IF ~HasPrefixIn(line, UnderscoreTokens) /\ line # << >> THEN
            IF Len(Fields(line)) = Len(s.loopHeaders)
            THEN [s EXCEPT !.loopData = Append(@, Fields(line))]
            ELSE s
        ELSE \* "End of loop" (lines 94-97)
            IF ~s.hasBlock THEN [s EXCEPT !.panicked = TRUE]
            ELSE [s EXCEPT !.inLoop = FALSE,
                           !.block = processLoopData(@, s.loopHeaders, s.loopData)]
    ELSE IF ContainsSpace(line) /\ ~HasPrefixIn(line, UnderscoreTokens) THEN
        IF ~s.hasBlock THEN [s EXCEPT !.panicked = TRUE]
        ELSE [s EXCEPT !.block.Metadata = MapPut(@, key, value)]
    ELSE IF HasPrefixIn(line, UnderscoreTokens) /\ ContainsSpace(line) THEN
        IF key \in CellLengthKeys /\ ParseFloatOk(value) THEN
            IF ~s.hasBlock THEN [s EXCEPT !.panicked = TRUE]
            ELSE [s EXCEPT !.block.CellLength = MapPut(@, key, ParseFloat(value))]
        ELSE IF key \in CellAngleKeys /\ ParseFloatOk(value) THEN
            IF ~s.hasBlock THEN [s EXCEPT !.panicked = TRUE]
            ELSE [s EXCEPT !.block.CellAngle = MapPut(@, key, ParseFloat(value))]
        ELSE s
    ELSE s

\* One iteration of the scanner loop of ParseFromString (lines 43-145), the
\* branches in the order of the code.
ParseStep(s, line) ==
    LET key == KeyOf(line)
        value == StripQuotes(ValueOf(line))
    IN
    IF line = << >> \/ HasPrefixIn(line, CommentTokens) THEN s
    ELSE IF HasPrefixIn(line, DataTokens) THEN
        [s EXCEPT !.hasBlock = TRUE,
                  !.block = NewDataBlock(<<TrimDataPrefix(line[1])>> \o Tail(line)),
                  !.inLoop = FALSE, !.loopHeaders = << >>, !.loopData = << >>]
    ELSE IF HasPrefixIn(line, LoopTokens) THEN
        [s EXCEPT !.inLoop = TRUE, !.loopHeaders = << >>, !.loopData = << >>]
    ELSE IF s.inLoop THEN
        IF HasPrefixIn(line, UnderscoreTokens) THEN
            [s EXCEPT !.loopHeaders = Append(@, line)]
        ELSE IF ~HasPrefixIn(line, UnderscoreTokens) /\ line # << >> THEN
            IF Len(Fields(line)) = Len(s.loopHeaders)
            THEN [s EXCEPT !.loopData = Append(@, Fields(line))]
            ELSE s
        ELSE \* "End of loop" (lines 94-97)
            IF ~s.hasBlock THEN [s EXCEPT !.panicked = TRUE]
            ELSE [s EXCEPT !.inLoop = FALSE,
                           !.block = processLoopData(@, s.loopHeaders, s.loopData)]
    ELSE IF ContainsSpace(line) /\ ~HasPrefixIn(line, UnderscoreTokens) THEN
        IF ~s.hasBlock THEN [s EXCEPT !.panicked = TRUE]
        ELSE [s EXCEPT !.block.Metadata = MapPut(@, key, value)]
    ELSE IF HasPrefixIn(line, UnderscoreTokens) /\ ContainsSpace(line) THEN
        IF key \in CellLengthKeys /\ ParseFloatOk(value) THEN
            IF ~s.hasBlock THEN [s EXCEPT !.panicked = TRUE]
            ELSE [s EXCEPT !.block.CellLength = MapPut(@, key, ParseFloat(value))]
        ELSE IF key \in CellAngleKeys /\ ParseFloatOk(value) THEN
            IF ~s.hasBlock THEN [s EXCEPT !.panicked = TRUE]
            ELSE [s EXCEPT !.block.CellAngle = MapPut(@, key, ParseFloat(value))]
        ELSE s
    ELSE s

\* What ParseFromString returns after the scan (lines 147-156): the error
\* "error reading CIF content" when the scanner stopped with an error, else
\* the CIFFile of the last data block, or the zero CIFFile when there was
\* none; a dereference of the nil currentDataBlock is a panic.
ParseOutcome(s) ==
    IF s.panicked THEN [kind |-> "panic", cif |-> ZeroCIF]
    ELSE IF s.scanErr THEN [kind |-> "error", cif |-> ZeroCIF]
    ELSE [kind |-> "ok", cif |-> IF s.hasBlock THEN s.block ELSE ZeroCIF]

\* scanner.Scan() and the body of the loop (lines 43-145): a line longer
\* than the buffer of the scanner ends the scan with bufio.ErrTooLong
ScanStep(s, line) ==
    IF TooLong(line) THEN [s EXCEPT !.scanErr = TRUE] ELSE ParseStep(s, line)

RECURSIVE ScanLines(_, _)
ScanLines(s, lines) ==
    IF lines = << >> \/ s.panicked \/ s.scanErr THEN s
    ELSE ScanLines(ScanStep(s, Head(lines)), Tail(lines))

ParseFromString(content) == ParseOutcome(ScanLines(InitParse, content))


\* ParseFromBase64 (lines 23-31): a payload is the submitted structure_file,
\* b64 telling whether base64.StdEncoding.DecodeString accepts it and text
\* the decoded lines.
ParseFromBase64(payload) ==
    IF ~payload.b64 THEN [kind |-> "decode_error", cif |-> ZeroCIF]
    ELSE ParseFromString(payload.text)

\* -------------------------------------------------- engine-input synthesis
\* the unique type symbols with each new symbol put in front
RECURSIVE UniqueElementsNewestFirst(_, _)
UniqueElementsNewestFirst(sites, seen) ==
    IF sites = << >> THEN << >>
    ELSE IF Head(sites).TypeSymbol \in seen
         THEN UniqueElementsNewestFirst(Tail(sites), seen)
         ELSE UniqueElementsNewestFirst(Tail(sites),
                                        seen \cup {Head(sites).TypeSymbol})
                \o <<Head(sites).TypeSymbol>>

\* first-occurrence order of the type symbols (lines 289-294)
RECURSIVE UniqueElements(_, _)
UniqueElements(sites, seen) ==
    IF sites = << >> THEN << >>
    ELSE IF Head(sites).TypeSymbol \in seen
         THEN UniqueElements(Tail(sites), seen)
         ELSE <<Head(sites).TypeSymbol>>
                \o UniqueElements(Tail(sites), seen \cup {Head(sites).TypeSymbol})

\* a missing map key reads as 0 (lines 272-274)
CellLengthOf(cif, key) ==
    IF key \in DOMAIN cif.CellLength THEN cif.CellLength[key] ELSE 0

\* ToDFTBInput with every fraction scaled by the cell length a
ToDFTBInputScaledByA(cif, method, fmax) ==
    IF cif.Name = <<"">> THEN [err |-> TRUE]
    ELSE
        LET a == CellLengthOf(cif, "_cell_length_a")
            b == CellLengthOf(cif, "_cell_length_b")
            c == CellLengthOf(cif, "_cell_length_c")
        IN  [err |-> FALSE,
             Periodic |-> TRUE,
             LatticeVectors |-> <<<<a, 0, 0>>, <<0, b, 0>>, <<0, 0, c>>>>,
             Elements |-> UniqueElements(cif.AtomSites, {}),
             Coordinates |->
                 [i \in 1..Len(cif.AtomSites) |->
                     <<cif.AtomSites[i].FractX * a,
                       cif.AtomSites[i].FractY * a,
                       cif.AtomSites[i].FractZ * a>>],
             Method |-> method,
             Forces |-> TRUE,
             Fmax |-> fmax]

\* ToDFTBInput (lines 261-314); lengths and fractions are in thousandths,
\* so Cartesian coordinates are in millionths
ToDFTBInput(cif, method, fmax) ==
    IF cif.Name = <<"">> THEN [err |-> TRUE]
    ELSE
        LET a == CellLengthOf(cif, "_cell_length_a")
            b == CellLengthOf(cif, "_cell_length_b")
            c == CellLengthOf(cif, "_cell_length_c")
        IN  [err |-> FALSE,
             Periodic |-> TRUE,
             LatticeVectors |-> <<<<a, 0, 0>>, <<0, b, 0>>, <<0, 0, c>>>>,
             Elements |-> UniqueElements(cif.AtomSites, {}),
             Coordinates |->
                 [i \in 1..Len(cif.AtomSites) |->
                     <<cif.AtomSites[i].FractX * a,
                       cif.AtomSites[i].FractY * b,
                       cif.AtomSites[i].FractZ * c>>],
             Method |-> method,
             Forces |-> TRUE,
             Fmax |-> fmax]

\* generateGeometryContent (runner.go lines 168-185): the header line with
\* the number of coordinates, the line of the element types, then one line
\* per coordinate, whose element is Elements[i % len(Elements)] for the
\* 0-based index i of the coordinate
generateGeometryContent(input) ==
    [natoms |-> Len(input.Coordinates),
     elements |-> input.Elements,
     atoms |->
        [i \in 1..Len(input.Coordinates) |->
            [element |-> input.Elements[((i - 1) % Len(input.Elements)) + 1],
             coord |-> input.Coordinates[i]]]]

\* the orders in which a range over a Go map may visit its keys
Perms(S) ==
    {f \in [1..Cardinality(S) -> S] : \A i, j \in DOMAIN f : f[i] = f[j] => i = j}

\* The content generateOptimizedCIF writes to optimized.cif (runner.go lines
\* 278-319): the data_ line with the name, the creation date of the day of
\* the run (time.Now), the cell lengths and cell angles in the order the
\* range over each map visits them, and one row per atom site, displaced by
\* 0.001 * (i+1), (i+2), (i+3) for the 0-based index i, with U_iso 0.01 when
\* the site has none.  Fractions are in thousandths.
generateOptimizedCIF(cif, date, lengthOrder, angleOrder) ==
    [name |-> cif.Name \o <<"_optimized">>,
     date |-> date,
     cell |-> [i \in 1..Len(lengthOrder) |->
                  <<lengthOrder[i], cif.CellLength[lengthOrder[i]]>>]
              \o [i \in 1..Len(angleOrder) |->
                  <<angleOrder[i], cif.CellAngle[angleOrder[i]]>>],
     atoms |-> [i \in 1..Len(cif.AtomSites) |->
                  [Label |-> cif.AtomSites[i].Label,
                   TypeSymbol |-> cif.AtomSites[i].TypeSymbol,
                   x |-> cif.AtomSites[i].FractX + i,
                   y |-> cif.AtomSites[i].FractY + i + 1,
                   z |-> cif.AtomSites[i].FractZ + i + 2,
                   uIso |-> IF cif.AtomSites[i].UIsoOrEquiv = 0 THEN 10
                            ELSE cif.AtomSites[i].UIsoOrEquiv]]]


\* ------------------------------------------------------------ input texts
\* The two-atom carbon structure of the specification's scenario.
CellLines ==
    <<<<"_cell_length_a", "10">>, <<"_cell_length_b", "10">>,
      <<"_cell_length_c", "10">>, <<"_cell_angle_alpha", "90">>,
      <<"_cell_angle_beta", "90">>, <<"_cell_angle_gamma", "90">>>>
AtomHeaderLines == [i \in 1..5 |-> <<atomSiteHeaders[i]>>]
\* rows of an atom-site loop: two with the five fields of the headers, one
\* with three fields and one with six
GoodRows == {<<"C1", "C", "0", "0", "0">>, <<"C2", "C", "0.5", "0.5", "0">>}
BadRows == {<<"C3", "C", "0.25">>, <<"H1", "H", "0", "0", "0.5", "0.25">>}
RowSeqs == UNION {[1..n -> GoodRows \cup BadRows] : n \in 0..MaxRows}
\* data_ declaration, cell lines, one loop_ with the atom-site headers, rows
AtomLoopText(cell, rows) ==
    <<<<"data_test">>>> \o cell \o <<<<"loop_">>>> \o AtomHeaderLines \o rows
AtomLoopTexts ==
    {AtomLoopText(cell, rows) :
        cell \in {CellLines, SubSeq(CellLines, 1, 3)}, rows \in RowSeqs}
TwoAtomText ==
    AtomLoopText(CellLines,
                 <<<<"C1", "C", "0", "0", "0">>, <<"C2", "C", "0.5", "0.5", "0">>>>)

\* data_ declaration, one loop_ with the atom-site headers and rows, then
\* the line of a cell length
CellLengthALine == <<"_cell_length_a", "10">>
LoopThenCellText(rows) ==
    <<<<"data_test">>, <<"loop_">>>> \o AtomHeaderLines \o rows
        \o <<CellLengthALine>>
LoopThenCellTexts == {LoopThenCellText(rows) : rows \in RowSeqs \ {<< >>}}

\* free-form texts: every sequence of at most MaxLines lines of LineVocab
LineVocab ==
    {<< >>, <<"#c">>, <<"data_test">>, <<"data_two">>, <<"data_">>, <<"loop_">>,
     <<"_atom_site_label">>, <<"_cell_length_a", "10">>,
     <<"_cell_length_a", "abc">>, <<"_chemical_name_common", "'x'">>,
     <<"title", "\"y\"">>, <<"abc">>, <<"C1", "C">>,
     <<"title", Tab, "\"y\"">>, <<"title", Tab, "\"y\"", "z">>,
     <<"_cell_length_a", Tab, "10">>, <<LongField>>}
ShortTexts == UNION {[1..n -> LineVocab] : n \in 0..MaxLines}

IsDataLine(line) == HasPrefixIn(line, DataTokens)
HasDataLine(t) == \E i \in 1..Len(t) : IsDataLine(t[i])

\* ------------------------------------------------------------- structures
\* The structures ToDFTBInput is run on: with and without a name, with and
\* without cell lengths (a cubic cell of 10 and a cell of 10 x 90 x 0.5),
\* with and without angles, and up to MaxSites atom sites.
SiteC1 ==
    [Label |-> "C1", TypeSymbol |-> "C", FractX |-> 0, FractY |-> 0,
     FractZ |-> 0, UIsoOrEquiv |-> 0, AdpType |-> ""]
SiteC2 ==
    [Label |-> "C2", TypeSymbol |-> "C", FractX |-> 500, FractY |-> 500,
     FractZ |-> 0, UIsoOrEquiv |-> 0, AdpType |-> ""]
SiteH1 ==
    [Label |-> "H1", TypeSymbol |-> "H", FractX |-> 250, FractY |-> 0,
     FractZ |-> 500, UIsoOrEquiv |-> 0, AdpType |-> ""]
Cubic10 == [k \in CellLengthKeys |-> 10000]
Cell10x90xHalf ==
    [k \in CellLengthKeys |->
        CASE k = "_cell_length_a" -> 10000
          [] k = "_cell_length_b" -> 90000
          [] OTHER -> 500]
Structures ==
    [Name : {<<"test">>, <<"">>},
     CellLength : {EmptyMap, Cubic10, Cell10x90xHalf},
     CellAngle : {EmptyMap, [k \in CellAngleKeys |-> 90000]},
     AtomSites : UNION {[1..n -> {SiteC1, SiteC2, SiteH1}] : n \in 0..MaxSites},
     Symmetry : {<< >>},
     Metadata : {EmptyMap}]

\* the texts whose structures the result of a job is generated from
ResultTexts ==
    {TwoAtomText, AtomLoopText(SubSeq(CellLines, 1, 3), << >>), <<<<"data_test">>>>}
\* what parseDFTBOutput returns for every readable output file (runner.go
\* lines 237-270): placeholder values, energies in thousandths
parseDFTBOutput ==
    [convergence_status |-> "converged", calculation_status |-> "completed",
     scc_converged |-> TRUE, total_eV |-> -100000]

\* --------------------------------------------------------------- requests
\* request_id values: none, two names, and another spelling of the second
\* name's directory
RequestIDs == {"", "a", "b", "./b"}
\* structure_file values: the empty string, bytes that are no base64, and
\* the base64 encodings of four texts, one of them with a line of 64 KiB
EmptyPayload == [b64 |-> TRUE, text |-> << >>]
LongLinePayload == [b64 |-> TRUE, text |-> <<<<"data_test">>, <<LongField>>>>]
Payloads ==
    {EmptyPayload, [b64 |-> FALSE, text |-> << >>], LongLinePayload,
     [b64 |-> TRUE, text |-> TwoAtomText],
     [b64 |-> TRUE, text |-> <<<<"data_">>>>],
     [b64 |-> TRUE, text |-> <<<<"title", "\"y\"">>>>]}
AllRequests ==
    [RequestID : RequestIDs, StructureFile : Payloads,
     Method : {"GFN2-xTB", "BAD-METHOD"}, Fmax : {0, 10}]
\* the fields of r that a submission must not have
Defects(r) ==
    {x \in 1..4 : <<r.RequestID = "", r.StructureFile = EmptyPayload,
                    r.Method = "BAD-METHOD", r.Fmax = 0>>[x]}
\* the submissions served: every request without a defect (the one with
\* the long line for job "a" only, and for job "./b" the one with the
\* two-atom structure only), and the requests for job "a" with the
\* two-atom structure that have exactly one
Requests ==
    {r \in AllRequests :
        \/ /\ Defects(r) = {}
           /\ r.StructureFile = LongLinePayload => r.RequestID = "a"
           /\ r.RequestID = "./b" => r.StructureFile = [b64 |-> TRUE, text |-> TwoAtomText]
        \/ /\ Cardinality(Defects(r)) = 1
           /\ r.RequestID \in {"", "a"}
           /\ r.StructureFile \in {EmptyPayload, [b64 |-> TRUE, text |-> TwoAtomText]}}
NoRequest ==
    [RequestID |-> "", StructureFile |-> EmptyPayload, Method |-> "", Fmax |-> 0]

\* number of HTTP requests to /api/v1/optimize the model serves
NumHandlers == 2
Handlers == 1..NumHandlers
\* ServerConfig.MaxRequests (flag max-requests) and ServerConfig.Timeout
MaxRequests == 1
Timeout == 300
\* time.Hour in seconds: the period of the cleanup ticker (main.go line 79)
HourSeconds == 3600
\* the age, in hours, above which the cleanup removes a directory (main.go
\* line 85)
RetentionHours == 24

\* files of a job directory
InputFiles == {"dftb_in.hsd", "geometry.gen"}
\* the output artifact the engine writes
EngineFiles == {"dftb_out.hsd"}

VARIABLES
    \* ParseFromString run line by line
    text,        \* the content being parsed
    pos,         \* number of lines scanned
    ps,          \* the locals of ParseFromString
    parsed,      \* "scanning", or the outcome once ParseFromString ended
    \* the service
    pc,          \* per handler: its position in optimizeStructure
    req,         \* per handler: the bound OptimizationRequest
    resp,        \* per handler: what it answered
    dirs,        \* request directories that exist under the work root
    files,       \* per request directory: the files in it
    gpc,         \* per handler: position of the goroutine running cmd.Run
    proc,        \* per handler: the engine subprocess
    done,        \* per handler: content of the channel done (capacity 1)
    exitedInTime, \* per handler: the engine exited 0 while the select waited
    statusReply, \* the last answer of the status endpoint
    \* the synthesis of the engine input and of the result, run alone
    structure,   \* the CIFFile they are run on
    input,       \* << >>, or the one result of ToDFTBInput
    geometry,    \* << >>, or the one content of geometry.gen
    optimized,   \* the results of the runs on structure so far
    \* time, in hours
    age,         \* per request directory: time since its modification time
    waited,      \* per handler: time its select has been waiting
    cfgTimeout,  \* ServerConfig.Timeout, in seconds
    removing,    \* per request directory: "none", or the function whose
                 \* os.RemoveAll is at work on it
    \* the MCP tool dftb_optimize
    cacheEnabled, \* config.enableCache && config.redisUrl: a CacheService is made
    cache,       \* the entries stored in Redis: key and status of the response
    clearing,    \* the calls of CacheService.clear that wait between KEYS
                 \* and DEL: how many for each set of keys KEYS returned
    pending,     \* the calls of execute that wait for the Go service: how
                 \* many for each params
    toolCalls,   \* number of calls of execute so far
    goCalls,     \* number of POSTs to the Go service so far
    answered,    \* per cache key: "never" answered with success, or the
                 \* last success is "fresh" (within the TTL) or "expired"
    toolArgs,    \* the params of the last execute, as execute left them
    toolReply,   \* the last answer of execute
    \* the request directory of RunOptimization, computed alone
    jobID,       \* a request_id, as its elements between the separators
    requestDir,  \* filepath.Join(r.workDir, request.RequestID), once computed
    \* CIFParser.SaveToFile
    saving       \* the calls of SaveToFile between os.MkdirAll and
                 \* os.WriteFile: directory and file of each

parseVars == <<text, pos, ps, parsed>>
jobVars == <<pc, req, resp, dirs, files, gpc, proc, done, exitedInTime, statusReply>>
synthVars == <<structure, input, geometry, optimized>>
timeVars == <<age, waited, cfgTimeout, removing>>
toolVars == <<cacheEnabled, cache, clearing, pending, toolCalls, goCalls, answered, toolArgs,
              toolReply>>
pathVars == <<jobID, requestDir, saving>>
vars == <<text, pos, ps, parsed, pc, req, resp, dirs, files, gpc, proc, done,
          exitedInTime, statusReply, structure, input, geometry, optimized,
          age, waited, cfgTimeout, removing, cacheEnabled, cache, clearing, pending,
          toolCalls,
          goCalls,
          answered, toolArgs, toolReply, jobID, requestDir, saving>>


\* ------------------------------------------------ ParseFromString, stepwise
Scanning == [kind |-> "scanning", cif |-> ZeroCIF]

\* ---------------------------------------------- the tool dftb_optimize
\* number of calls of the tool the model serves
MaxToolCalls == 3
\* structure_file, method and fmax (in units of 0.0001) of a call; "" and 0
\* stand for a missing field
ToolParams ==
    [structure_file : {"", "cif-1"},
     method : {"", "GFN1-xTB", "GFN2-xTB", "BAD-METHOD"},
     fmax : {0, 10, 1000}]
NoParams == [structure_file |-> "", method |-> "", fmax |-> 0]

\* the defaults execute writes into params (part_002 lines 57-63)
WithDefaults(params) ==
    [params EXCEPT
        !.method = IF @ \notin {"GFN1-xTB", "GFN2-xTB"} THEN "GFN1-xTB" ELSE @,
        !.fmax = IF @ <= 0 THEN 1000 ELSE @]

\* CacheService.generateCacheKey (types/index.ts lines 181-192): the prefix
\* and the hash of structure_file, method and fmax, the latter two with
\* their defaults
generateCacheKey(request) ==
    <<"dftbopt", request.structure_file,
      IF request.method = "" THEN "GFN1-xTB" ELSE request.method,
      IF request.fmax = 0 THEN 1000 ELSE request.fmax>>
CacheKeys == {generateCacheKey(WithDefaults(q)) : q \in ToolParams}
\* the params execute posts to the Go service
PostedParams == {WithDefaults(q) : q \in {x \in ToolParams : x.structure_file # ""}}
\* the requests and the response statuses CacheService.set, delete are
\* called with
CachedRequests ==
    {q \in ToolParams : q.structure_file # "" /\ q.method \in {"", "GFN2-xTB"} /\ q.fmax = 10}
\* the keys of these requests
CachedKeys == {generateCacheKey(q) : q \in CachedRequests}
\* greatest number of calls of CacheService.clear that wait at a time
MaxClears == 2

\* the tool has not been called
ToolIdle ==
    /\ cacheEnabled = FALSE
    /\ cache = {}
    /\ pending = [q \in PostedParams |-> 0]
    /\ clearing = [keys \in SUBSET CachedKeys |-> 0]
    /\ toolCalls = 0
    /\ goCalls = 0
    /\ answered = [k \in CacheKeys |-> "never"]
    /\ toolArgs = NoParams
    /\ toolReply = [status |-> "", request_id |-> "", from |-> ""]

\* ------------------------------------------------- the request directory
\* Paths are sequences of elements; the empty sequence is ".".
\* the flag work-dir, by default "./work" (main.go line 22)
WorkDir == <<".", "work">>
\* greatest number of elements of a request_id
MaxIDLen == 3
PathElements == {"a", "b", "..", "."}
\* the request_ids ValidateRequest accepts: every string but the empty one
PathIDs == UNION {[1..n -> PathElements] : n \in 1..MaxIDLen}

\* filepath.Clean of a relative path: "." elements go, a ".." takes the
\* element before it away unless there is none or it is a ".." itself
RECURSIVE Clean(_, _)
Clean(out, path) ==
    IF path = << >> THEN out
    ELSE IF Head(path) \in {"", "."} THEN Clean(out, Tail(path))
    ELSE IF Head(path) = ".." /\ out # << >> /\ out[Len(out)] # ".."
         THEN Clean(SubSeq(out, 1, Len(out) - 1), Tail(path))
    ELSE Clean(Append(out, Head(path)), Tail(path))
\* filepath.Join(dir, name): the two joined by a separator, cleaned
Join(dir, name) == Clean(<< >>, dir \o name)

\* a request_id of more than 255 bytes, which no file name can have
LongID == "<256 bytes>"
\* the elements of a request_id
IDElements(requestID) == IF requestID = "./b" THEN <<".", "b">> ELSE <<requestID>>
\* the work root itself, which main.go line 48 creates at the start
WorkRoot == "."
\* Directories directly under the work root are called by their name, the
\* work root is WorkRoot; "" stands for a path that is neither.
DirName(path) ==
    IF path = Clean(<< >>, WorkDir) THEN WorkRoot
    ELSE IF Len(path) = Len(Clean(<< >>, WorkDir)) + 1
              /\ SubSeq(path, 1, Len(path) - 1) = Clean(<< >>, WorkDir)
    THEN path[Len(path)] ELSE ""
\* requestDir := filepath.Join(r.workDir, request.RequestID) (runner.go lines
\* 35 and 362), computed once for every request_id: those of the
\* submissions, the generated ones and the long one
RequestDirOf ==
    [id \in RequestIDs \cup {"uuid-1", "uuid-2", "uuid-3", "uuid-4", LongID}
        |-> DirName(Join(WorkDir, IDElements(id)))]
RequestDir(requestID) == RequestDirOf[requestID]
\* the request directories of the request_ids, and those of generated ones
DirNames ==
    {RequestDir(id) : id \in RequestIDs \ {""}} \cup {"uuid-1", "uuid-2", "uuid-3", "uuid-4"}

\* no request directory is computed
PathIdle ==
    /\ jobID = << >>
    /\ requestDir = [set |-> FALSE, path |-> << >>]
    /\ saving = {}

\* no time has passed; the timeout is the default of the flag
TimeIdle ==
    /\ age = [d \in DirNames
                |-> 0]
    /\ waited = [h \in Handlers |-> 0]
    /\ removing = [d \in DirNames
                     |-> "none"]

SynthIdle ==
    /\ input = << >>
    /\ geometry = << >>
    /\ optimized = << >>

JobInit ==
    /\ pc = [h \in Handlers |-> "idle"]
    /\ req = [h \in Handlers |-> NoRequest]
    /\ resp = [h \in Handlers |->
                 [kind |-> "none", status |-> "", request_id |-> "", message |-> << >>]]
    /\ dirs = {}
    /\ files = [d \in DirNames
                  |-> {}]
    /\ gpc = [h \in Handlers |-> "idle"]
    /\ proc = [h \in Handlers |-> "none"]
    /\ done = [h \in Handlers |-> "empty"]
    /\ exitedInTime = [h \in Handlers |-> FALSE]
    /\ statusReply = [request_id |-> "", status |-> ""]

ParseInit ==
    /\ text \in ShortTexts \cup AtomLoopTexts \cup LoopThenCellTexts
    /\ pos = 0
    /\ ps = InitParse
    /\ parsed = Scanning
    /\ JobInit
    /\ ToolIdle
    /\ PathIdle
    /\ TimeIdle
    /\ cfgTimeout = Timeout
    /\ structure = ZeroCIF
    /\ SynthIdle

\* scanner.Scan() and the body of the scanner loop on the next line (lines
\* 43-145); pos counts the lines the scanner delivered
ScanLine ==
    /\ parsed = Scanning
    /\ pos < Len(text)
    /\ ~ps.panicked
    /\ ~ps.scanErr
    /\ ps' = ScanStep(ps, text[pos + 1])
    /\ pos' = IF TooLong(text[pos + 1]) THEN pos ELSE pos + 1
    /\ UNCHANGED <<text, parsed>>
    /\ UNCHANGED jobVars
    /\ UNCHANGED synthVars
    /\ UNCHANGED toolVars
    /\ UNCHANGED pathVars
    /\ UNCHANGED timeVars

\* the end of the scan (lines 147-156), at the end of the text or at the
\* error of the scanner, or the panic that ended it
ParseReturn ==
    /\ parsed = Scanning
    /\ IF ps.panicked \/ ps.scanErr THEN TRUE ELSE pos = Len(text)
    /\ parsed' = ParseOutcome(ps)
    /\ UNCHANGED <<text, pos, ps>>
    /\ UNCHANGED jobVars
    /\ UNCHANGED synthVars
    /\ UNCHANGED toolVars
    /\ UNCHANGED pathVars
    /\ UNCHANGED timeVars

ParseNext == ScanLine \/ ParseReturn

SpecParse == ParseInit /\ [][ParseNext]_vars


\* -------------------------------------------------------------- the service
\* uuid.New().String(): a fresh identifier per handler
NewUUID(h) == <<"uuid-1", "uuid-2", "uuid-3", "uuid-4">>[h]

\* c.ShouldBindJSON with the binding tags of OptimizationRequest
\* (types.go lines 5-8): every required field non-zero, fmax >= 0.001
BindOK(r) ==
    /\ r.RequestID # ""
    /\ r.StructureFile # EmptyPayload
    /\ r.Method # ""
    /\ r.Fmax # 0
    /\ r.Fmax >= 10

\* ValidateRequest without its check of the method
ValidateRequestNoMethodCheck(r) ==
    IF r.RequestID = "" THEN "request ID is required"
    ELSE IF r.StructureFile = EmptyPayload THEN "structure file is required"
    ELSE IF r.Fmax <= 0 THEN "fmax must be positive"
    ELSE "ok"

\* ValidateRequest (runner.go lines 340-358): the first failed check's message
ValidateRequest(r) ==
    IF r.RequestID = "" THEN "request ID is required"
    ELSE IF r.StructureFile = EmptyPayload THEN "structure file is required"
    ELSE IF r.Method # "GFN1-xTB" /\ r.Method # "GFN2-xTB" THEN "invalid method"
    ELSE IF r.Fmax <= 0 THEN "fmax must be positive"
    ELSE "ok"

\* createErrorResponse (runner.go lines 331-337)
createErrorResponse(requestID, message) ==
    [kind |-> "response", status |-> "error", request_id |-> requestID,
     message |-> message]
\* the gin.H answers of optimizeStructure (handlers.go lines 79-82, 93-96,
\* 103-106): an error and its details, no request identifier
BadRequest(error, details) ==
    [kind |-> "bad_request", status |-> "", request_id |-> "",
     message |-> <<error, details>>]
ServerError(details) ==
    [kind |-> "server_error", status |-> "", request_id |-> "",
     message |-> <<"Optimization failed", details>>]
SuccessResponse(requestID) ==
    [kind |-> "response", status |-> "success", request_id |-> requestID,
     message |-> << >>]
\* a panic in the handler: gin.New() installs no recovery, net/http closes
\* the connection without an answer
Panicked ==
    [kind |-> "panic", status |-> "", request_id |-> "", message |-> << >>]

\* the request directory of the job of h
Dir(h) == RequestDir(req[h].RequestID)

\* os.Stat of the request directory (file "") or of a file in it: nil,
\* the error os.IsNotExist knows, or another error (the name is too long).
\* The directory of the request_id "" is the work root, which exists; its
\* entries are the request directories, none of them a file looked up.
Stat(dir, file) ==
    IF dir = LongID THEN "error"
    ELSE IF dir = WorkRoot THEN IF file = "" THEN "ok" ELSE "not_exist"
    ELSE IF dir \notin dirs THEN "not_exist"
    ELSE IF file = "" \/ file \in files[dir] THEN "ok"
    ELSE "not_exist"

\* GetStatus (runner.go lines 361-382)
GetStatus(requestID) ==
    LET dir == RequestDir(requestID)
    IN  IF Stat(dir, "") = "not_exist" THEN "not_found"
        ELSE IF Stat(dir, "dftb_out.hsd") = "not_exist" THEN "running"
        ELSE IF Stat(dir, "error.log") # "not_exist" THEN "error"
        ELSE "completed"

\* the end of runDFTBCalculation without the check of cmd.Run's error
WaitResultNoErrorCheck(err, outputExists) ==
    IF ~outputExists THEN "output_missing" ELSE "ok"

\* the end of runDFTBCalculation once cmd.Run's error arrived on done
\* (runner.go lines 214-226)
WaitResult(err, outputExists) ==
    IF err THEN "failed"
    ELSE IF ~outputExists THEN "output_missing"
    ELSE "ok"

Answer(h, r) ==
    /\ resp' = [resp EXCEPT ![h] = r]
    /\ pc' = [pc EXCEPT ![h] = IF r.kind = "panic" THEN "panicked" ELSE "returned"]

\* optimizeStructure up to the call of RunOptimization (handlers.go 74-98)
Submit(h) ==
    /\ pc[h] = "idle"
    /\ IF h = 1 THEN TRUE ELSE pc[h - 1] # "idle"
    /\ \E r \in Requests :
        IF ~BindOK(r) THEN
            /\ Answer(h, BadRequest("Invalid request format", "binding"))
            /\ req' = [req EXCEPT ![h] = r]
        ELSE
            LET r2 == IF r.RequestID = ""
                      THEN [r EXCEPT !.RequestID = NewUUID(h)] ELSE r
            IN  /\ req' = [req EXCEPT ![h] = r2]
                /\ IF ValidateRequest(r2) # "ok"
                   THEN Answer(h, BadRequest("Invalid request parameters",
                                             ValidateRequest(r2)))
                   ELSE /\ pc' = [pc EXCEPT ![h] = "mkdir"]
                        /\ UNCHANGED resp
    /\ UNCHANGED <<dirs, files, gpc, proc, done, exitedInTime, statusReply>>
    /\ UNCHANGED parseVars
    /\ UNCHANGED toolVars
    /\ UNCHANGED pathVars
    /\ UNCHANGED synthVars
    /\ UNCHANGED timeVars

\* The modification time of directory d: creating an entry in d (or d
\* itself) sets it to now, every other step leaves it alone.
Touch(d, created) ==
    /\ age' = IF created THEN [age EXCEPT ![d] = 0] ELSE age
    /\ UNCHANGED <<waited, cfgTimeout, removing>>

\* os.MkdirAll of the request directory (runner.go lines 35-38)
MakeRequestDir(h) ==
    /\ pc[h] = "mkdir"
    /\ \E ok \in BOOLEAN :
        IF ok
        THEN /\ dirs' = dirs \cup {Dir(h)}
             /\ pc' = [pc EXCEPT ![h] = "parse"]
             /\ UNCHANGED resp
        ELSE /\ Answer(h, ServerError("failed to create request directory"))
             /\ UNCHANGED dirs
    /\ UNCHANGED <<req, files, gpc, proc, done, exitedInTime, statusReply>>
    /\ UNCHANGED parseVars
    /\ UNCHANGED toolVars
    /\ UNCHANGED pathVars
    /\ UNCHANGED synthVars
    /\ Touch(Dir(h), Dir(h) \in dirs' \ dirs)

\* the error of ParseFromBase64 and ToDFTBInput on a structure_file, "" if
\* none (runner.go lines 41-50)
PrepareInput(structureFile, method, fmax) ==
    LET out == ParseFromBase64(structureFile)
    IN  CASE out.kind = "panic" -> <<"panic">>
          [] out.kind = "decode_error" ->
                <<"failed to parse CIF file", "failed to decode base64 content">>
          [] out.kind = "error" ->
                <<"failed to parse CIF file", "error reading CIF content">>
          [] ToDFTBInput(out.cif, method, fmax).err ->
                <<"failed to convert to DFTB+ input", "invalid CIF file">>
          [] OTHER -> << >>

\* ParseFromBase64, then ToDFTBInput (runner.go lines 41-50)
ParseStructure(h) ==
    /\ pc[h] = "parse"
    /\ LET e == PrepareInput(req[h].StructureFile, req[h].Method, req[h].Fmax)
       IN  CASE e = <<"panic">> -> Answer(h, Panicked)
             [] e = << >> -> /\ pc' = [pc EXCEPT ![h] = "genfiles"]
                             /\ UNCHANGED resp
             [] OTHER -> Answer(h, createErrorResponse(req[h].RequestID, e))
    /\ UNCHANGED <<req, dirs, files, gpc, proc, done, exitedInTime, statusReply>>
    /\ UNCHANGED parseVars
    /\ UNCHANGED toolVars
    /\ UNCHANGED pathVars
    /\ UNCHANGED synthVars
    /\ UNCHANGED timeVars

\* os.WriteFile of file f in directory d (runner.go lines 100, 108, 322): it
\* opens the file, creating it if it is not there, then writes.  "written":
\* both succeed; "created": the write fails, the file stays; "failed": the
\* file cannot be opened, nothing changes.  In a directory that does not
\* exist it can only fail.
WriteOutcomes == {"written", "created", "failed"}
WriteFile(d, f, out) ==
    /\ d \notin dirs => out = "failed"
    /\ files' = IF out = "failed" THEN files ELSE [files EXCEPT ![d] = @ \cup {f}]
    /\ Touch(d, out # "failed" /\ f \notin files[d])

\* generateInputFiles, its first half (runner.go lines 53-55, 96-102): the
\* write of dftb_in.hsd
WriteInputFile(h) ==
    /\ pc[h] = "genfiles"
    /\ \E out \in WriteOutcomes :
        /\ WriteFile(Dir(h), "dftb_in.hsd", out)
        /\ IF out = "written"
           THEN /\ pc' = [pc EXCEPT ![h] = "geometry"]
                /\ UNCHANGED resp
           ELSE Answer(h, createErrorResponse(req[h].RequestID,
                    <<"failed to generate input files", "failed to write input file">>))
    /\ UNCHANGED <<req, dirs, gpc, proc, done, exitedInTime, statusReply>>
    /\ UNCHANGED parseVars
    /\ UNCHANGED toolVars
    /\ UNCHANGED pathVars
    /\ UNCHANGED synthVars

\* generateInputFiles, its second half (runner.go lines 53-55, 104-112): the
\* write of geometry.gen
WriteGeometryFile(h) ==
    /\ pc[h] = "geometry"
    /\ \E out \in WriteOutcomes :
        /\ WriteFile(Dir(h), "geometry.gen", out)
        /\ IF out = "written"
           THEN /\ pc' = [pc EXCEPT ![h] = "launch"]
                /\ UNCHANGED resp
           ELSE Answer(h, createErrorResponse(req[h].RequestID,
                    <<"failed to generate input files", "failed to write geometry file">>))
    /\ UNCHANGED <<req, dirs, gpc, proc, done, exitedInTime, statusReply>>
    /\ UNCHANGED parseVars
    /\ UNCHANGED toolVars
    /\ UNCHANGED pathVars
    /\ UNCHANGED synthVars

\* generateInputFiles (runner.go lines 53-55, 95-113): dftb_in.hsd, then
\* geometry.gen, in two blocking calls
GenerateInputFiles(h) == WriteInputFile(h) \/ WriteGeometryFile(h)

\* the launch, not waiting for generateInputFiles
LaunchBeforeInputs(h) ==
    /\ pc[h] \in {"genfiles", "geometry", "launch"}
    /\ \E engineExists \in BOOLEAN :
        IF engineExists
        THEN /\ gpc' = [gpc EXCEPT ![h] = "ready"]
             /\ pc' = [pc EXCEPT ![h] = "select"]
             /\ UNCHANGED resp
        ELSE /\ Answer(h, createErrorResponse(req[h].RequestID,
                    <<"DFTB+ calculation failed", "DFTB+ executable not found">>))
             /\ UNCHANGED gpc
    /\ UNCHANGED <<req, dirs, files, proc, done, exitedInTime, statusReply>>
    /\ UNCHANGED parseVars
    /\ UNCHANGED toolVars
    /\ UNCHANGED pathVars
    /\ UNCHANGED synthVars
    /\ UNCHANGED timeVars

\* runDFTBCalculation up to the select (runner.go lines 189-207): the
\* existence check of the engine, then the goroutine for cmd.Run is started
\* and the handler waits in the select, its timer armed
Launch(h) ==
    /\ pc[h] = "launch"
    /\ \E engineExists \in BOOLEAN :
        IF engineExists
        THEN /\ gpc' = [gpc EXCEPT ![h] = "ready"]
             /\ pc' = [pc EXCEPT ![h] = "select"]
             /\ UNCHANGED resp
        ELSE /\ Answer(h, createErrorResponse(req[h].RequestID,
                    <<"DFTB+ calculation failed", "DFTB+ executable not found">>))
             /\ UNCHANGED gpc
    /\ UNCHANGED <<req, dirs, files, proc, done, exitedInTime, statusReply>>
    /\ UNCHANGED parseVars
    /\ UNCHANGED toolVars
    /\ UNCHANGED pathVars
    /\ UNCHANGED synthVars
    /\ UNCHANGED timeVars


\* cmd.Run in the goroutine (runner.go lines 203-205), first half: cmd.Start
\* sets cmd.Process and the engine runs in the request directory.  (An
\* engine that cannot be run is the engine that exits with an error.)
GoroutineStart(h) ==
    /\ gpc[h] = "ready"
    /\ proc' = [proc EXCEPT ![h] = "running"]
    /\ gpc' = [gpc EXCEPT ![h] = "waiting"]
    /\ UNCHANGED <<pc, req, resp, dirs, files, done, exitedInTime, statusReply>>
    /\ UNCHANGED parseVars
    /\ UNCHANGED toolVars
    /\ UNCHANGED pathVars
    /\ UNCHANGED synthVars
    /\ UNCHANGED timeVars

\* the engine, an external program, writes a file into its working directory
EngineWrite(h) ==
    /\ proc[h] = "running"
    /\ Dir(h) \in dirs
    /\ \E f \in EngineFiles \ files[Dir(h)] :
        files' = [files EXCEPT ![Dir(h)] = @ \cup {f}]
    /\ UNCHANGED <<pc, req, resp, dirs, gpc, proc, done, exitedInTime, statusReply>>
    /\ UNCHANGED parseVars
    /\ UNCHANGED toolVars
    /\ UNCHANGED pathVars
    /\ UNCHANGED synthVars
    /\ Touch(Dir(h), TRUE)

\* the engine exits by itself, with status 0 or not
EngineExit(h) ==
    /\ proc[h] = "running"
    /\ \E ok \in BOOLEAN :
        /\ proc' = [proc EXCEPT ![h] = IF ok THEN "exited_ok" ELSE "exited_fail"]
        /\ exitedInTime' = [exitedInTime EXCEPT ![h] = ok /\ pc[h] = "select"]
    /\ UNCHANGED <<pc, req, resp, dirs, files, gpc, done, statusReply>>
    /\ UNCHANGED parseVars
    /\ UNCHANGED toolVars
    /\ UNCHANGED pathVars
    /\ UNCHANGED synthVars
    /\ UNCHANGED timeVars

\* the send on a channel done without a buffer: it completes only while
\* the handler waits in the select
GoroutineDeliverUnbuffered(h) ==
    /\ gpc[h] = "waiting"
    /\ proc[h] \in {"exited_ok", "exited_fail", "killed"}
    /\ pc[h] = "select"
    /\ done' = [done EXCEPT ![h] = IF proc[h] = "exited_ok" THEN "nil" ELSE "err"]
    /\ gpc' = [gpc EXCEPT ![h] = "finished"]
    /\ pc' = [pc EXCEPT ![h] = "received"]
    /\ UNCHANGED <<req, resp, dirs, files, proc, exitedInTime, statusReply>>
    /\ UNCHANGED parseVars
    /\ UNCHANGED toolVars
    /\ UNCHANGED pathVars
    /\ UNCHANGED synthVars
    /\ UNCHANGED timeVars

\* cmd.Run in the goroutine, second half: cmd.Wait returns once the process
\* has ended and the error is sent on done (runner.go line 204).  A handler
\* blocked in the select receives it at once; after a timeout the value stays
\* in the channel's buffer of one and the goroutine ends all the same.
GoroutineDeliver(h) ==
    /\ gpc[h] = "waiting"
    /\ proc[h] \in {"exited_ok", "exited_fail", "killed"}
    /\ done' = [done EXCEPT ![h] = IF proc[h] = "exited_ok" THEN "nil" ELSE "err"]
    /\ gpc' = [gpc EXCEPT ![h] = "finished"]
    /\ pc' = [pc EXCEPT ![h] = IF @ = "select" THEN "received" ELSE @]
    /\ UNCHANGED <<req, resp, dirs, files, proc, exitedInTime, statusReply>>
    /\ UNCHANGED parseVars
    /\ UNCHANGED toolVars
    /\ UNCHANGED pathVars
    /\ UNCHANGED synthVars
    /\ UNCHANGED timeVars

\* the error of a timeout naming the default of the flag timeout
TimeoutErrorOfDefault ==
    <<"DFTB+ calculation failed", "DFTB+ calculation timed out after", Timeout>>

\* the error of a timeout (runner.go lines 213, 60): "DFTB+ calculation
\* failed: DFTB+ calculation timed out after %d seconds"
TimeoutError ==
    <<"DFTB+ calculation failed", "DFTB+ calculation timed out after", cfgTimeout>>

\* What the timeout branch may read in cmd.Process (runner.go line 210).
\* The goroutine writes the field in cmd.Start with no synchronisation with
\* this read: before the write it is nil, after it the read may still
\* return nil or the process.
ProcessSeen(h) ==
    IF proc[h] = "none" THEN {FALSE} ELSE {TRUE, FALSE}

\* a select whose timer does not fire while the engine runs
SelectWithoutTimer(h) ==
    /\ pc[h] = "select"
    /\ proc[h] # "running"
    /\ \E seen \in ProcessSeen(h) :
        proc' = [proc EXCEPT ![h] = IF seen /\ @ = "running" THEN "killed" ELSE @]
    /\ Answer(h, createErrorResponse(req[h].RequestID, TimeoutError))
    /\ UNCHANGED <<req, dirs, files, gpc, done, exitedInTime, statusReply>>
    /\ UNCHANGED parseVars
    /\ UNCHANGED toolVars
    /\ UNCHANGED pathVars
    /\ UNCHANGED synthVars
    /\ UNCHANGED timeVars

\* the timer branch taken also after a value was received from done
SelectTimeoutAfterDelivery(h) ==
    /\ pc[h] \in {"select", "received"}
    /\ \E seen \in ProcessSeen(h) :
        proc' = [proc EXCEPT ![h] = IF seen /\ @ = "running" THEN "killed" ELSE @]
    /\ Answer(h, createErrorResponse(req[h].RequestID, TimeoutError))
    /\ UNCHANGED <<req, dirs, files, gpc, done, exitedInTime, statusReply>>
    /\ UNCHANGED parseVars
    /\ UNCHANGED toolVars
    /\ UNCHANGED pathVars
    /\ UNCHANGED synthVars
    /\ UNCHANGED timeVars

\* the timer branch of the select (runner.go lines 208-213)
SelectTimeout(h) ==
    /\ pc[h] = "select"
    /\ \E seen \in ProcessSeen(h) :
        proc' = [proc EXCEPT ![h] = IF seen /\ @ = "running" THEN "killed" ELSE @]
    /\ Answer(h, createErrorResponse(req[h].RequestID, TimeoutError))
    /\ UNCHANGED <<req, dirs, files, gpc, done, exitedInTime, statusReply>>
    /\ UNCHANGED parseVars
    /\ UNCHANGED toolVars
    /\ UNCHANGED pathVars
    /\ UNCHANGED synthVars
    /\ UNCHANGED timeVars

\* the done branch of the select and the check of the output file
\* (runner.go lines 214-226, 58-61)
CheckResult(h) ==
    /\ pc[h] = "received"
    /\ LET res == WaitResult(done[h] = "err", "dftb_out.hsd" \in files[Dir(h)])
       IN  CASE res = "failed" ->
                    Answer(h, createErrorResponse(req[h].RequestID,
                        <<"DFTB+ calculation failed", "DFTB+ calculation failed">>))
             [] res = "output_missing" ->
                    Answer(h, createErrorResponse(req[h].RequestID,
                        <<"DFTB+ calculation failed", "DFTB+ output file not found">>))
             [] OTHER -> /\ pc' = [pc EXCEPT ![h] = "postprocess"]
                         /\ UNCHANGED resp
    /\ UNCHANGED <<req, dirs, files, gpc, proc, done, exitedInTime, statusReply>>
    /\ UNCHANGED parseVars
    /\ UNCHANGED toolVars
    /\ UNCHANGED pathVars
    /\ UNCHANGED synthVars
    /\ UNCHANGED timeVars

\* The errors of RunOptimization after the calculation (runner.go lines
\* 63-91): of parseDFTBOutput, which reads dftb_out.hsd, of
\* generateOptimizedCIF, which writes optimized.cif, and of ReadFromFile,
\* which reads it back.
PostProcessErrors ==
    {<<"failed to parse DFTB+ output", "failed to read output file">>,
     <<"failed to generate optimized CIF", "failed to write optimized CIF">>,
     <<"failed to read optimized CIF", "failed to read file">>}
\* os.ReadFile of file f in directory d: the outcomes it can have, TRUE for
\* the content.  A file that is not there (removed by a cleanup since it
\* was written) cannot be read.
ReadFile(d, f) == IF d \in dirs /\ f \in files[d] THEN BOOLEAN ELSE {FALSE}

\* parseDFTBOutput (runner.go lines 64-67, 231-235): the read of dftb_out.hsd
ParseOutput(h) ==
    /\ pc[h] = "postprocess"
    /\ \E ok \in ReadFile(Dir(h), "dftb_out.hsd") :
        IF ok
        THEN /\ pc' = [pc EXCEPT ![h] = "writecif"]
             /\ UNCHANGED resp
        ELSE Answer(h, createErrorResponse(req[h].RequestID,
                 <<"failed to parse DFTB+ output", "failed to read output file">>))
    /\ UNCHANGED <<req, dirs, files, gpc, proc, done, exitedInTime, statusReply>>
    /\ UNCHANGED parseVars
    /\ UNCHANGED toolVars
    /\ UNCHANGED pathVars
    /\ UNCHANGED synthVars
    /\ UNCHANGED timeVars

\* generateOptimizedCIF (runner.go lines 70-73, 321-324): the write of
\* optimized.cif
WriteOptimizedCIF(h) ==
    /\ pc[h] = "writecif"
    /\ \E out \in WriteOutcomes :
        /\ WriteFile(Dir(h), "optimized.cif", out)
        /\ IF out = "written"
           THEN /\ pc' = [pc EXCEPT ![h] = "readcif"]
                /\ UNCHANGED resp
           ELSE Answer(h, createErrorResponse(req[h].RequestID,
                    <<"failed to generate optimized CIF", "failed to write optimized CIF">>))
    /\ UNCHANGED <<req, dirs, gpc, proc, done, exitedInTime, statusReply>>
    /\ UNCHANGED parseVars
    /\ UNCHANGED toolVars
    /\ UNCHANGED pathVars
    /\ UNCHANGED synthVars

\* ReadFromFile of optimized.cif and the success result (runner.go lines
\* 76-91)
ReadOptimizedCIF(h) ==
    /\ pc[h] = "readcif"
    /\ \E ok \in ReadFile(Dir(h), "optimized.cif") :
        IF ok
        THEN Answer(h, SuccessResponse(req[h].RequestID))
        ELSE Answer(h, createErrorResponse(req[h].RequestID,
                 <<"failed to read optimized CIF", "failed to read file">>))
    /\ UNCHANGED <<req, dirs, files, gpc, proc, done, exitedInTime, statusReply>>
    /\ UNCHANGED parseVars
    /\ UNCHANGED toolVars
    /\ UNCHANGED pathVars
    /\ UNCHANGED synthVars
    /\ UNCHANGED timeVars

\* the end of RunOptimization with the cleanup of the request directory
\* (os.RemoveAll) on success
FinishJobWithCleanup(h) ==
    \/ ParseOutput(h)
    \/ WriteOptimizedCIF(h)
    \/ /\ pc[h] = "readcif"
       /\ \E ok \in ReadFile(Dir(h), "optimized.cif") :
           /\ files' = IF ok THEN [files EXCEPT ![Dir(h)] = {}] ELSE files
           /\ dirs' = IF ok THEN dirs \ {Dir(h)} ELSE dirs
           /\ IF ok
              THEN Answer(h, SuccessResponse(req[h].RequestID))
              ELSE Answer(h, createErrorResponse(req[h].RequestID,
                       <<"failed to read optimized CIF", "failed to read file">>))
       /\ UNCHANGED <<req, gpc, proc, done, exitedInTime, statusReply>>
       /\ UNCHANGED parseVars
       /\ UNCHANGED toolVars
       /\ UNCHANGED pathVars
       /\ UNCHANGED synthVars
       /\ UNCHANGED timeVars

\* the end of RunOptimization (runner.go lines 63-91), in its three
\* blocking calls
FinishJob(h) == ParseOutput(h) \/ WriteOptimizedCIF(h) \/ ReadOptimizedCIF(h)

\* getStatus (handlers.go lines 114-138)
StatusQuery(id) ==
    /\ statusReply' = [request_id |-> id, status |-> GetStatus(id)]
    /\ UNCHANGED <<pc, req, resp, dirs, files, gpc, proc, done, exitedInTime>>
    /\ UNCHANGED parseVars
    /\ UNCHANGED toolVars
    /\ UNCHANGED pathVars
    /\ UNCHANGED synthVars
    /\ UNCHANGED timeVars

\* The status lookup reads nothing but the file system, so it is also run
\* against a file system that changes by itself: a request directory
\* appears (as by os.MkdirAll, runner.go line 36), a file appears in it (the
\* engine's output artifact, or the error marker).
\* The identifiers the route /api/v1/status/:requestID delivers (handlers.go
\* lines 39, 115): one path segment, never one with a separator.
StatusIDs == {id \in RequestIDs \ {""} : Len(IDElements(id)) = 1} \cup {LongID}
\* the request directories of these
RequestDirs == {RequestDir(id) : id \in RequestIDs \ {""}}
StatusFiles == {"dftb_out.hsd", "error.log"}
DirAppears(id) ==
    /\ id \notin dirs
    /\ dirs' = dirs \cup {id}
    /\ UNCHANGED <<pc, req, resp, files, gpc, proc, done, exitedInTime, statusReply>>
    /\ UNCHANGED parseVars
    /\ UNCHANGED toolVars
    /\ UNCHANGED pathVars
    /\ UNCHANGED synthVars
    /\ UNCHANGED timeVars
FileAppears(id, f) ==
    /\ id \in dirs
    /\ f \notin files[id]
    /\ files' = [files EXCEPT ![id] = @ \cup {f}]
    /\ UNCHANGED <<pc, req, resp, dirs, gpc, proc, done, exitedInTime, statusReply>>
    /\ UNCHANGED parseVars
    /\ UNCHANGED toolVars
    /\ UNCHANGED pathVars
    /\ UNCHANGED synthVars
    /\ UNCHANGED timeVars

\* CIFParser.SaveToFile(content, filename) (part_000 lines 317-330), which
\* no code of the service calls, on a file f of request directory d: its
\* first half, os.MkdirAll of the directory of the file (lines 319-322).
\* One call per file is between its two halves at a time.
SaveToFile(d, f) ==
    /\ <<d, f>> \notin saving
    /\ \E ok \in BOOLEAN :
        /\ dirs' = IF ok THEN dirs \cup {d} ELSE dirs
        /\ saving' = IF ok THEN saving \cup {<<d, f>>} ELSE saving
    /\ Touch(d, d \in dirs' \ dirs)
    /\ UNCHANGED <<pc, req, resp, files, gpc, proc, done, exitedInTime, statusReply>>
    /\ UNCHANGED <<jobID, requestDir>>
    /\ UNCHANGED parseVars
    /\ UNCHANGED toolVars
    /\ UNCHANGED synthVars
\* its second half, os.WriteFile of the file (lines 325-329)
SaveToFileWrites(d, f) ==
    /\ <<d, f>> \in saving
    /\ saving' = saving \ {<<d, f>>}
    /\ \E out \in WriteOutcomes : WriteFile(d, f, out)
    /\ UNCHANGED <<pc, req, resp, dirs, gpc, proc, done, exitedInTime, statusReply>>
    /\ UNCHANGED <<jobID, requestDir>>
    /\ UNCHANGED parseVars
    /\ UNCHANGED toolVars
    /\ UNCHANGED synthVars

Init ==
    /\ text = << >>
    /\ pos = 0
    /\ ps = InitParse
    /\ parsed = Scanning
    /\ JobInit
    /\ ToolIdle
    /\ PathIdle
    /\ TimeIdle
    /\ cfgTimeout = Timeout
    /\ structure = ZeroCIF
    /\ SynthIdle

Next ==
    \/ \E h \in Handlers :
        \/ Submit(h)
        \/ MakeRequestDir(h)
        \/ ParseStructure(h)
        \/ GenerateInputFiles(h)
        \/ Launch(h)
        \/ GoroutineStart(h)
        \/ EngineWrite(h)
        \/ EngineExit(h)
        \/ GoroutineDeliver(h)
        \/ SelectTimeout(h)
        \/ CheckResult(h)
        \/ FinishJob(h)

Spec == Init /\ [][Next]_vars

\* the steps of the job of handler h: optimizeStructure, RunOptimization,
\* the goroutine of cmd.Run and the engine
RunStep(h) ==
    \/ Submit(h)
    \/ MakeRequestDir(h)
    \/ ParseStructure(h)
    \/ GenerateInputFiles(h)
    \/ Launch(h)
    \/ GoroutineStart(h)
    \/ EngineWrite(h)
    \/ EngineExit(h)
    \/ GoroutineDeliver(h)
    \/ SelectTimeout(h)
    \/ CheckResult(h)
    \/ FinishJob(h)

\* The first two submissions, running to their end.  The handler's
\* goroutine runs on: once the timer of the select is armed it fires unless
\* a value arrives on done first (time.After, runner.go line 208), and the
\* code after the select runs to its return.  Nothing makes the engine exit
\* or write.
FairHandlers == {h \in Handlers : h <= 2}
FairNext == \E h \in FairHandlers : RunStep(h)
Fairness ==
    \A h \in FairHandlers :
        /\ WF_vars(SelectTimeout(h))
        /\ WF_vars(CheckResult(h))
        /\ WF_vars(FinishJob(h))

SpecFair == Init /\ [][FairNext]_vars /\ Fairness

\* The same, with the goroutine of cmd.Run running on as well: once cmd.Run
\* can return (the engine has ended) the goroutine sends its error on done
\* (runner.go lines 202-204).
SendFairness == \A h \in FairHandlers : WF_vars(GoroutineDeliver(h))

SpecSend == Init /\ [][FairNext]_vars /\ Fairness /\ SendFairness

StatusNext ==
    \/ \E id \in StatusIDs : StatusQuery(id)
    \/ \E id \in RequestDirs :
          \/ DirAppears(id)
          \/ \E f \in StatusFiles : FileAppears(id, f)
          \/ \E f \in StatusFiles \cup {"optimized.cif"} : SaveToFile(id, f) \/ SaveToFileWrites(id, f)

SpecStatus == Init /\ [][StatusNext]_vars


\* ------------------------------------- engine-input synthesis, run alone
\* ToDFTBInput on a structure (part_000 lines 261-314)
Synthesize ==
    /\ input = << >>
    /\ \E method \in {"GFN1-xTB", "GFN2-xTB"} :
        input' = <<ToDFTBInput(structure, method, 10)>>
    /\ UNCHANGED <<structure, geometry, optimized>>
    /\ UNCHANGED parseVars
    /\ UNCHANGED toolVars
    /\ UNCHANGED pathVars
    /\ UNCHANGED <<pc, req, resp, dirs, files, gpc, proc, done, exitedInTime,
                   statusReply>>
    /\ UNCHANGED timeVars

\* generateGeometryContent on the engine input (runner.go lines 105, 168-185)
GenerateGeometry ==
    /\ input # << >>
    /\ ~input[1].err
    /\ geometry = << >>
    /\ geometry' = <<generateGeometryContent(input[1])>>
    /\ UNCHANGED <<structure, input, optimized>>
    /\ UNCHANGED parseVars
    /\ UNCHANGED toolVars
    /\ UNCHANGED pathVars
    /\ UNCHANGED <<pc, req, resp, dirs, files, gpc, proc, done, exitedInTime,
                   statusReply>>
    /\ UNCHANGED timeVars

SynthInit ==
    /\ text = << >>
    /\ pos = 0
    /\ ps = InitParse
    /\ parsed = Scanning
    /\ JobInit
    /\ ToolIdle
    /\ PathIdle
    /\ TimeIdle
    /\ cfgTimeout = Timeout
    /\ structure \in Structures
    /\ SynthIdle

SynthNext == Synthesize \/ GenerateGeometry

SpecSynth == SynthInit /\ [][SynthNext]_vars

\* ------------------------------------------ the result of a job, run alone
\* RunOptimization after the calculation (runner.go lines 63-91), run
\* twice, one run after the other, for a job on the parsed structure whose
\* engine left dftb_out.hsd in the request directory.  optimized holds the
\* runs: the stage of each, its error, the parsed data, and the content of
\* optimized.cif, which depends on the day of the run and on the order the
\* ranges visit the two cell maps.
ResultDir == RequestDir("a")
\* the stage of the last run: "parsed" after parseDFTBOutput, "written"
\* after generateOptimizedCIF, "returned" or "failed" at its end
RunStage == IF optimized = << >> THEN "returned" ELSE optimized[Len(optimized)].stage
GenerateResult ==
    /\ \/ /\ RunStage \in {"returned", "failed"}
          /\ Len(optimized) < 2
          /\ \E ok \in ReadFile(ResultDir, "dftb_out.hsd") :
                optimized' = Append(optimized,
                    IF ok
                    THEN [stage |-> "parsed", error |-> << >>,
                          ParsedData |-> <<parseDFTBOutput>>, OutputCIF |-> << >>]
                    ELSE [stage |-> "failed",
                          error |-> <<"failed to parse DFTB+ output",
                                      "failed to read output file">>,
                          ParsedData |-> << >>, OutputCIF |-> << >>])
          /\ UNCHANGED files
          /\ UNCHANGED timeVars
       \/ /\ RunStage = "parsed"
          /\ \E out \in WriteOutcomes, date \in {"2026-10-30", "2026-10-31"},
                lengthOrder \in Perms(DOMAIN structure.CellLength),
                angleOrder \in Perms(DOMAIN structure.CellAngle) :
                /\ WriteFile(ResultDir, "optimized.cif", out)
                /\ optimized' = [optimized EXCEPT ![Len(optimized)] =
                      IF out = "written"
                      THEN [@ EXCEPT !.stage = "written",
                                     !.OutputCIF = <<generateOptimizedCIF(
                                         structure, date, lengthOrder, angleOrder)>>]
                      ELSE [@ EXCEPT !.stage = "failed",
                                     !.error = <<"failed to generate optimized CIF",
                                                 "failed to write optimized CIF">>]]
       \/ /\ RunStage = "written"
          /\ \E ok \in ReadFile(ResultDir, "optimized.cif") :
                optimized' = [optimized EXCEPT ![Len(optimized)] =
                      IF ok
                      THEN [@ EXCEPT !.stage = "returned"]
                      ELSE [@ EXCEPT !.stage = "failed",
                                     !.error = <<"failed to read optimized CIF",
                                                 "failed to read file">>]]
          /\ UNCHANGED files
          /\ UNCHANGED timeVars
    /\ UNCHANGED <<structure, input, geometry>>
    /\ UNCHANGED parseVars
    /\ UNCHANGED toolVars
    /\ UNCHANGED pathVars
    /\ UNCHANGED <<pc, req, resp, dirs, gpc, proc, done, exitedInTime, statusReply>>

ResultInit ==
    /\ text = << >>
    /\ pos = 0
    /\ ps = InitParse
    /\ parsed = Scanning
    /\ pc = [h \in Handlers |-> "idle"]
    /\ req = [h \in Handlers |-> NoRequest]
    /\ resp = [h \in Handlers |->
                 [kind |-> "none", status |-> "", request_id |-> "", message |-> << >>]]
    /\ dirs = {ResultDir}
    /\ files = [d \in DirNames |->
                  IF d = ResultDir THEN InputFiles \cup EngineFiles ELSE {}]
    /\ gpc = [h \in Handlers |-> "idle"]
    /\ proc = [h \in Handlers |-> "none"]
    /\ done = [h \in Handlers |-> "empty"]
    /\ exitedInTime = [h \in Handlers |-> FALSE]
    /\ statusReply = [request_id |-> "", status |-> ""]
    /\ ToolIdle
    /\ PathIdle
    /\ TimeIdle
    /\ cfgTimeout = Timeout
    /\ structure \in {ParseFromString(t).cif : t \in ResultTexts}
    /\ SynthIdle

SpecResult == ResultInit /\ [][GenerateResult]_vars


\* --------------------------------------- one job, the clock and the cleanup
\* Time is counted in hours.  The timer of a select that has waited w hours
\* fires within the hour in which its timeout ends.
TimerDue(h) == (waited[h] + 1) * HourSeconds > cfgTimeout

\* the steps of the job of h, the timer branch taken when the timer is due
TimedRunStep(h) ==
    \/ Submit(h)
    \/ MakeRequestDir(h)
    \/ ParseStructure(h)
    \/ GenerateInputFiles(h)
    \/ Launch(h)
    \/ GoroutineStart(h)
    \/ EngineWrite(h)
    \/ EngineExit(h)
    \/ GoroutineDeliver(h)
    \/ (TimerDue(h) /\ SelectTimeout(h))
    \/ CheckResult(h)
    \/ FinishJob(h)

\* The hourly ticker of main.go line 79 ticks, and an hour has passed.  The
\* age of a directory is the number of ticks since its last modification: a
\* directory modified 24 h 30 min before a tick has age 25 at that tick, and
\* is older than 24 hours then; one of age 24 is at most 24 hours old.
\* An hour passes while a handler waits in its select or no request is
\* being served and no os.RemoveAll is at work (the steps of the code take
\* no time on this scale), and not past the hour in which a waiting
\* select's timer fires.  It passes whether request directories exist or
\* not; ages are counted up to MaxHours, which stands for MaxHours and more.
Tick ==
    /\ \A h \in Handlers :
          /\ pc[h] \in {"idle", "select", "returned", "panicked"}
          /\ pc[h] = "select" => ~TimerDue(h)
    /\ \A d \in DOMAIN removing : removing[d] = "none"
    /\ age' = [d \in DOMAIN age |->
                 IF d \in dirs /\ age[d] < MaxHours THEN age[d] + 1 ELSE age[d]]
    /\ waited' = [h \in Handlers |->
                    IF pc[h] = "select" THEN waited[h] + 1 ELSE waited[h]]
    /\ UNCHANGED <<cfgTimeout, removing>>
    /\ UNCHANGED <<pc, req, resp, dirs, files, gpc, proc, done, exitedInTime,
                   statusReply>>
    /\ UNCHANGED parseVars
    /\ UNCHANGED toolVars
    /\ UNCHANGED pathVars
    /\ UNCHANGED synthVars

\* cleanupOldFiles(workDir, 24*time.Hour) (main.go lines 85, 111-145), run
\* by the hourly ticker when the flag cleanup is set, at a directory whose
\* modification time is more than 24 hours ago: os.RemoveAll of it begins
\* (lines 128-131).
cleanupOldFiles(d) ==
    /\ d \in dirs
    /\ removing[d] = "none"
    /\ age[d] > RetentionHours
    /\ removing' = [removing EXCEPT ![d] = "cleanupOldFiles"]
    /\ UNCHANGED <<age, waited, cfgTimeout>>
    /\ UNCHANGED jobVars
    /\ UNCHANGED parseVars
    /\ UNCHANGED toolVars
    /\ UNCHANGED pathVars
    /\ UNCHANGED synthVars

\* the ages, in hours, DFTBRunner.Cleanup is called with
CleanupAges == {1, RetentionHours}
\* DFTBRunner.Cleanup(maxAge) (runner.go lines 385-405), which no code of
\* the service calls, at a directory older than maxAge: os.RemoveAll of it
\* begins (lines 395-397)
Cleanup(maxAge, d) ==
    /\ d \in dirs
    /\ removing[d] = "none"
    /\ age[d] > maxAge
    /\ removing' = [removing EXCEPT ![d] = "Cleanup"]
    /\ UNCHANGED <<age, waited, cfgTimeout>>
    /\ UNCHANGED jobVars
    /\ UNCHANGED parseVars
    /\ UNCHANGED toolVars
    /\ UNCHANGED pathVars
    /\ UNCHANGED synthVars

\* the functions that remove request directories
Removers == {"cleanupOldFiles", "Cleanup"}
\* os.RemoveAll(dirPath) at work on d: it removes the entries of the
\* directory one by one, which changes its modification time
RemoveEntry(d) ==
    /\ removing[d] \in Removers
    /\ \E f \in files[d] : files' = [files EXCEPT ![d] = @ \ {f}]
    /\ age' = [age EXCEPT ![d] = 0]
    /\ UNCHANGED <<waited, cfgTimeout, removing>>
    /\ UNCHANGED <<pc, req, resp, dirs, gpc, proc, done, exitedInTime, statusReply>>
    /\ UNCHANGED parseVars
    /\ UNCHANGED toolVars
    /\ UNCHANGED pathVars
    /\ UNCHANGED synthVars

\* os.RemoveAll(dirPath) removes the directory once it is empty, and returns
RemoveDir(d) ==
    /\ removing[d] \in Removers
    /\ files[d] = {}
    /\ dirs' = dirs \ {d}
    /\ age' = [age EXCEPT ![d] = 0]
    /\ removing' = [removing EXCEPT ![d] = "none"]
    /\ UNCHANGED <<waited, cfgTimeout>>
    /\ UNCHANGED <<pc, req, resp, files, gpc, proc, done, exitedInTime, statusReply>>
    /\ UNCHANGED parseVars
    /\ UNCHANGED toolVars
    /\ UNCHANGED pathVars
    /\ UNCHANGED synthVars

\* os.RemoveAll(dirPath) returns an error, which is logged (main.go lines
\* 130-131, runner.go lines 397-399): what it has not removed stays
RemoveFails(d) ==
    /\ removing[d] \in Removers
    /\ removing' = [removing EXCEPT ![d] = "none"]
    /\ UNCHANGED <<age, waited, cfgTimeout>>
    /\ UNCHANGED jobVars
    /\ UNCHANGED parseVars
    /\ UNCHANGED toolVars
    /\ UNCHANGED pathVars
    /\ UNCHANGED synthVars

RetentionInit ==
    /\ text = << >>
    /\ pos = 0
    /\ ps = InitParse
    /\ parsed = Scanning
    /\ JobInit
    /\ ToolIdle
    /\ PathIdle
    /\ TimeIdle
    /\ cfgTimeout \in {Timeout, 25 * HourSeconds}
    /\ structure = ZeroCIF
    /\ SynthIdle

RetentionNext ==
    \/ TimedRunStep(1)
    \/ Tick
    \/ \E d \in RequestDirs :
          \/ cleanupOldFiles(d)
          \/ \E maxAge \in CleanupAges : Cleanup(maxAge, d)
          \/ RemoveEntry(d)
          \/ RemoveDir(d)
          \/ RemoveFails(d)
    \/ \E id \in StatusIDs \cap {req[1].RequestID} : StatusQuery(id)

SpecRetention == RetentionInit /\ [][RetentionNext]_vars


\* --------------------------------------------- the tool dftb_optimize, run
\* DFTBOptimizationTool.execute (part_002 lines 51-112), up to its await:
\* structure_file is checked (a missing one throws, and the catch answers
\* at once with request_id "unknown"), method and fmax get their defaults,
\* and GoServiceClient.optimizeStructure posts /api/v1/optimize with a new
\* request_id; execute then waits for the answer, and other calls of
\* execute run meanwhile.  The cacheService of the tool is not used.
execute ==
    /\ toolCalls < MaxToolCalls
    /\ toolCalls' = toolCalls + 1
    /\ \E params \in ToolParams :
        IF params.structure_file = ""
        THEN /\ toolArgs' = params
             /\ toolReply' = [status |-> "error", request_id |-> "unknown",
                               from |-> "tool"]
             /\ UNCHANGED <<goCalls, pending>>
        ELSE /\ toolArgs' = WithDefaults(params)
             /\ goCalls' = goCalls + 1
             /\ pending' = [pending EXCEPT ![WithDefaults(params)] = @ + 1]
             /\ UNCHANGED toolReply
    /\ UNCHANGED <<cacheEnabled, cache, clearing, answered>>
    /\ UNCHANGED parseVars
    /\ UNCHANGED jobVars
    /\ UNCHANGED synthVars
    /\ UNCHANGED pathVars
    /\ UNCHANGED timeVars

\* execute after its await (part_002 lines 67-111): the answer of the Go
\* service to a call with params has come, in any order among the waiting
\* calls, and is transformed; an exception of optimizeStructure becomes an
\* error answer with request_id "unknown"
executeResumes(params) ==
    /\ pending[params] > 0
    /\ pending' = [pending EXCEPT ![params] = @ - 1]
    /\ \E outcome \in {"success", "error", "throw"} :
        /\ toolReply' =
             [status |-> IF outcome = "success" THEN "success" ELSE "error",
              request_id |-> IF outcome = "throw" THEN "unknown" ELSE "uuid",
              from |-> "go"]
        /\ answered' =
             IF outcome = "success"
             THEN [answered EXCEPT ![generateCacheKey(params)] = "fresh"]
             ELSE answered
    /\ UNCHANGED <<cacheEnabled, cache, clearing, toolCalls, goCalls, toolArgs>>
    /\ UNCHANGED parseVars
    /\ UNCHANGED jobVars
    /\ UNCHANGED synthVars
    /\ UNCHANGED pathVars
    /\ UNCHANGED timeVars

\* CacheService.set (types/index.ts lines 233-255), which no code calls:
\* with the cache enabled, the response is stored under the key of the
\* request, in place of what was there
set(request, response) ==
    /\ cacheEnabled
    /\ cache' = {e \in cache : e.key # generateCacheKey(request)}
                 \cup {[key |-> generateCacheKey(request), value |-> response]}
    /\ UNCHANGED <<cacheEnabled, clearing, pending, toolCalls, goCalls, answered, toolArgs,
                   toolReply>>
    /\ UNCHANGED parseVars
    /\ UNCHANGED jobVars
    /\ UNCHANGED synthVars
    /\ UNCHANGED pathVars
    /\ UNCHANGED timeVars

\* CacheService.delete (types/index.ts lines 260-273), which no code calls,
\* and the expiry in Redis of a key stored with setEx (line 247)
delete(request) ==
    /\ cacheEnabled
    /\ cache' = {e \in cache : e.key # generateCacheKey(request)}
    /\ UNCHANGED <<cacheEnabled, clearing, pending, toolCalls, goCalls, answered, toolArgs,
                   toolReply>>
    /\ UNCHANGED parseVars
    /\ UNCHANGED jobVars
    /\ UNCHANGED synthVars
    /\ UNCHANGED pathVars
    /\ UNCHANGED timeVars

\* number of calls counted in bag
RECURSIVE BagSize(_, _)
BagSize(bag, on) ==
    IF on = {} THEN 0
    ELSE LET x == CHOOSE y \in on : TRUE
         IN  bag[x] + BagSize(bag, on \ {x})

\* CacheService.clear (types/index.ts lines 279-297), which no code calls,
\* up to its first await: with the cache enabled, it asks Redis for the keys
\* with the prefix (KEYS, line 285) and waits for them; set, delete and
\* other calls of clear run meanwhile
clear ==
    /\ cacheEnabled
    /\ BagSize(clearing, DOMAIN clearing) < MaxClears
    /\ clearing' = [clearing EXCEPT ![{e.key : e \in cache}] = @ + 1]
    /\ UNCHANGED <<cacheEnabled, cache, pending, toolCalls, goCalls, answered, toolArgs,
                   toolReply>>
    /\ UNCHANGED parseVars
    /\ UNCHANGED jobVars
    /\ UNCHANGED synthVars
    /\ UNCHANGED pathVars
    /\ UNCHANGED timeVars

\* CacheService.clear after KEYS has answered keys (lines 286-292): it
\* deletes these keys (DEL, when there are any) and returns; an entry
\* stored since under another key stays
clearResumes(keys) ==
    /\ clearing[keys] > 0
    /\ clearing' = [clearing EXCEPT ![keys] = @ - 1]
    /\ cache' = {e \in cache : e.key \notin keys}
    /\ UNCHANGED <<cacheEnabled, pending, toolCalls, goCalls, answered, toolArgs,
                   toolReply>>
    /\ UNCHANGED parseVars
    /\ UNCHANGED jobVars
    /\ UNCHANGED synthVars
    /\ UNCHANGED pathVars
    /\ UNCHANGED timeVars

\* the TTL of the cache (cacheTTL, by default 86400 seconds, MCPServer.ts
\* line 42) passes since the last success for key k
TTLPasses(k) ==
    /\ answered[k] = "fresh"
    /\ answered' = [answered EXCEPT ![k] = "expired"]
    /\ UNCHANGED <<cacheEnabled, cache, clearing, pending, toolCalls, goCalls, toolArgs,
                   toolReply>>
    /\ UNCHANGED parseVars
    /\ UNCHANGED jobVars
    /\ UNCHANGED synthVars
    /\ UNCHANGED pathVars
    /\ UNCHANGED timeVars

ToolInit ==
    /\ text = << >>
    /\ pos = 0
    /\ ps = InitParse
    /\ parsed = Scanning
    /\ JobInit
    /\ TimeIdle
    /\ cfgTimeout = Timeout
    /\ structure = ZeroCIF
    /\ SynthIdle
    /\ PathIdle
    /\ cacheEnabled \in BOOLEAN
    /\ cache = {}
    /\ pending = [q \in PostedParams |-> 0]
    /\ clearing = [keys \in SUBSET CachedKeys |-> 0]
    /\ toolCalls = 0
    /\ goCalls = 0
    /\ answered = [k \in CacheKeys |-> "never"]
    /\ toolArgs = NoParams
    /\ toolReply = [status |-> "", request_id |-> "", from |-> ""]

ToolNext ==
    \/ execute
    \/ \E params \in PostedParams : executeResumes(params)
    \/ \E k \in CacheKeys : TTLPasses(k)
    \/ \E request \in CachedRequests :
          \/ \E response \in {"success", "error"} : set(request, response)
          \/ delete(request)
    \/ clear
    \/ \E keys \in SUBSET CachedKeys : clearResumes(keys)

SpecTool == ToolInit /\ [][ToolNext]_vars

\* ------------------------------------ the request directory, computed alone
\* RunOptimization, its first statement (runner.go line 35), for a
\* request_id that passed ValidateRequest
JoinRequestDir ==
    /\ ~requestDir.set
    /\ jobID # << >>
    /\ requestDir' = [set |-> TRUE, path |-> Join(WorkDir, jobID)]
    /\ UNCHANGED <<jobID, saving>>
    /\ UNCHANGED parseVars
    /\ UNCHANGED jobVars
    /\ UNCHANGED synthVars
    /\ UNCHANGED timeVars
    /\ UNCHANGED toolVars

PathInit ==
    /\ text = << >>
    /\ pos = 0
    /\ ps = InitParse
    /\ parsed = Scanning
    /\ JobInit
    /\ ToolIdle
    /\ TimeIdle
    /\ cfgTimeout = Timeout
    /\ structure = ZeroCIF
    /\ SynthIdle
    /\ jobID \in PathIDs
    /\ requestDir = [set |-> FALSE, path |-> << >>]
    /\ saving = {}

PathNext == JoinRequestDir

SpecPath == PathInit /\ [][PathNext]_vars

\* =================================================================== claims
\* the goroutine of cmd.Run was started for the job of handler h
Launched(h) == gpc[h] # "idle"
Returned(h) == pc[h] = "returned"
IsTimeoutError(m) == Len(m) = 3 /\ m[2] = "DFTB+ calculation timed out after"
TimedOut(h) == Returned(h) /\ IsTimeoutError(resp[h].message)
Completed(h) == Returned(h) /\ resp[h].status = "success"
\* the job ended with the error of a nonzero exit or of a missing artifact
FailedAfterLaunch(h) ==
    /\ Returned(h)
    /\ resp[h].message \in
         {<<"DFTB+ calculation failed", "DFTB+ calculation failed">>,
          <<"DFTB+ calculation failed", "DFTB+ output file not found">>}
OutputIn(d) == "dftb_out.hsd" \in files[d]
\* handler h returns from RunOptimization in this step
Returns(h) == pc[h] # "returned" /\ pc'[h] = "returned"

\* the rows of a text whose field count is the number of loop headers
HeaderCount(t) == Cardinality({i \in 1..Len(t) : t[i] \in Range(AtomHeaderLines)})
WellFormedRows(t) ==
    Cardinality({i \in 1..Len(t) :
        t[i] \in GoodRows \cup BadRows /\ Len(t[i]) = HeaderCount(t)})

\* C1: a text of one data_ declaration, cell-length lines and one loop_ with
\* the atom-site headers parses without error, and the structure has as
\* many atom sites as the loop has rows with one field per header.
C1_AtomCountIsWellFormedRows ==
    (parsed # Scanning /\ text \in AtomLoopTexts) =>
        /\ parsed.kind = "ok"
        /\ Len(parsed.cif.AtomSites) = WellFormedRows(text)

\* C2 (as claimed): a launched job returns completed if and only if its
\* engine exited with status 0 before the timeout and dftb_out.hsd is in the
\* job directory.
C2_CompletedIffCleanExitAndOutput ==
    [][\A h \in Handlers :
          (Returns(h) /\ Launched(h)) =>
             ((resp'[h].status = "success")
                 <=> (exitedInTime[h] /\ OutputIn(Dir(h))))]_vars

\* C2 (amended): a launched job returns completed only if its engine exited
\* with status 0, that exit reached the waiting select before the timer,
\* and dftb_out.hsd is in the job directory; with all three it returns
\* completed unless reading dftb_out.hsd or writing or reading back
\* optimized.cif fails; after a nonzero exit, and after a clean exit
\* without dftb_out.hsd, it returns an error result.
C2_CompletedOnlyAfterCleanExitAndOutput ==
    [][\A h \in Handlers :
          (Returns(h) /\ Launched(h)) =>
             /\ (resp'[h].status = "success") =>
                   /\ exitedInTime[h]
                   /\ done[h] = "nil"
                   /\ OutputIn(Dir(h))
             /\ (/\ pc[h] \in {"received", "postprocess", "writecif", "readcif"}
                 /\ done[h] = "nil"
                 /\ OutputIn(Dir(h))
                 /\ resp'[h].status # "success")
                   => resp'[h].message \in PostProcessErrors
             /\ (\/ proc[h] = "exited_fail"
                 \/ (proc[h] = "exited_ok" /\ ~OutputIn(Dir(h))))
                   => (resp'[h].kind = "response" /\ resp'[h].status = "error")]_vars
\* a job returned completed, its engine having exited 0 in time with the
\* artifact written
C2_Witness ==
    \E h \in Handlers :
        Completed(h) /\ Launched(h) /\ proc[h] = "exited_ok" /\ OutputIn(Dir(h))

\* C3: after a job is reported timed out, its engine process does not run.
C3_TimedOutEngineNotRunning ==
    \A h \in Handlers : TimedOut(h) => proc[h] # "running"

\* C4: at most MaxRequests engine processes run at any time.
C4_RunningWithinMaxRequests ==
    Cardinality({h \in Handlers : proc[h] = "running"}) <= MaxRequests

\* C5: two jobs in flight at the same time have different working
\* directories.
InFlight(h) ==
    pc[h] \in {"parse", "genfiles", "geometry", "launch", "select", "received",
              "postprocess", "writecif", "readcif"}
C5_InFlightDirsDistinct ==
    \A h1, h2 \in Handlers :
        (h1 # h2 /\ InFlight(h1) /\ InFlight(h2)) => Dir(h1) # Dir(h2)

\* C6: for a submission that passed ValidateRequest, RunOptimization ends
\* with an OptimizationResponse of status "success" or "error": no nil
\* response with a raw error, no panic.
C6_AlwaysResultShaped ==
    \A h \in Handlers :
        (/\ pc[h] \in {"returned", "panicked"}
         /\ BindOK(req[h])
         /\ ValidateRequest(req[h]) = "ok")
          => (resp[h].kind = "response" /\ resp[h].status \in {"success", "error"})

\* C7: parsing a text without a data_ line fails with an error and gives no
\* structure.
C7_NoDataBlockIsError ==
    (parsed # Scanning /\ ~HasDataLine(text)) => parsed.kind = "error"

\* C8: from the launch of a job's engine to the return of RunOptimization,
\* GetStatus of the job is "running".
C8_RunningUntilReturn ==
    \A h \in Handlers :
        pc[h] \in {"select", "received", "postprocess", "writecif", "readcif"}
          => GetStatus(req[h].RequestID) = "running"

\* the directory of the job with this identifier exists; file f is in it
JobDirExists(id) == RequestDir(id) \in dirs
InJobDir(id, f) == JobDirExists(id) /\ f \in files[RequestDir(id)]

\* C9: the status endpoint answers "not_found" for a job whose directory
\* does not exist, and "completed" once the directory and dftb_out.hsd exist
\* and error.log does not.
C9_NotFoundThenCompleted ==
    [][statusReply' # statusReply =>
          LET id == statusReply'.request_id
          IN  /\ ~JobDirExists(id) => statusReply'.status = "not_found"
              /\ (InJobDir(id, "dftb_out.hsd") /\ ~InJobDir(id, "error.log"))
                    => statusReply'.status = "completed"]_vars

\* C10: GetStatus of a job that timed out equals GetStatus of a job that
\* failed by a nonzero exit or a missing artifact.
C10_TimedOutStatusAsFailed ==
    \A h1, h2 \in Handlers :
        (TimedOut(h1) /\ FailedAfterLaunch(h2))
          => GetStatus(req[h1].RequestID) = GetStatus(req[h2].RequestID)

\* the two methods the service knows
ValidMethods == {"GFN1-xTB", "GFN2-xTB"}
\* handler h takes a submission in this step
Submits(h) == pc[h] = "idle" /\ pc'[h] # "idle"

\* C11: a submission without request_id, its other fields valid, is
\* accepted and runs under a freshly generated identifier.
C11_MissingRequestIDIsGenerated ==
    [][\A h \in Handlers :
          (/\ Submits(h)
           /\ req'[h].RequestID \notin RequestIDs \ {""}
           /\ req'[h].StructureFile # EmptyPayload
           /\ req'[h].Method \in ValidMethods
           /\ req'[h].Fmax >= 10)
            => (/\ req'[h].RequestID = NewUUID(h)
                /\ pc'[h] = "mkdir"
                /\ resp'[h].kind = "none")]_vars

\* C12: a submission whose method is not one of the two known methods is
\* answered with the validation error of the method, and no directory is
\* made and no engine started for it.
C12_BadMethodRejected ==
    \A h \in Handlers :
        (pc[h] # "idle" /\ req[h].Method \notin ValidMethods)
          => /\ pc[h] = "returned"
             /\ resp[h] = BadRequest("Invalid request parameters", "invalid method")
             /\ gpc[h] = "idle"
             /\ proc[h] = "none"
\* a submission with method BAD-METHOD was answered
C12_Witness ==
    \E h \in Handlers :
        /\ pc[h] = "returned"
        /\ req[h].Method = "BAD-METHOD"
        /\ resp[h].kind = "bad_request"

\* C13: a submission whose fmax is zero or negative, its other fields
\* valid, is answered with the validation error "fmax must be positive",
\* and no engine is started for it.
C13_NonPositiveFmaxMessage ==
    \A h \in Handlers :
        (/\ pc[h] # "idle"
         /\ req[h].Fmax <= 0
         /\ req[h].RequestID # ""
         /\ req[h].StructureFile # EmptyPayload
         /\ req[h].Method \in ValidMethods)
          => /\ pc[h] = "returned"
             /\ resp[h].kind = "bad_request"
             /\ resp[h].message[2] = "fmax must be positive"
             /\ gpc[h] = "idle"

\* C14: every answer that reports a failure carries the request identifier
\* of its submission and a message that is not empty.
C14_FailureCarriesRequestID ==
    \A h \in Handlers :
        (pc[h] \in {"returned", "panicked"} /\ resp[h].status # "success")
          => /\ req[h].RequestID # ""
             /\ resp[h].request_id = req[h].RequestID
             /\ resp[h].message # << >>

\* C15: two runs on the same structure content, with the engine leaving the
\* same output, give the same parsed data and the same optimized structure,
\* on whatever days they run and in whatever order the cell maps are
\* visited.
C15_SameInputSameResult ==
    \A i, j \in 1..Len(optimized) :
        (optimized[i].stage = "returned" /\ optimized[j].stage = "returned")
          => /\ optimized[i].ParsedData = optimized[j].ParsedData
             /\ optimized[i].OutputCIF = optimized[j].OutputCIF

\* C16: ToDFTBInput returns an error exactly for the structures that have
\* an empty name or no cell lengths.
C16_ErrorIffNoNameOrNoCell ==
    input # << >> =>
        (input[1].err <=>
            (structure.Name = <<"">> \/ DOMAIN structure.CellLength = {}))

\* C17: the i-th atom line of geometry.gen carries the type symbol of the
\* structure's i-th atom site and that site's Cartesian coordinate.
C17_GeometryLineMatchesSite ==
    geometry # << >> =>
        /\ Len(geometry[1].atoms) = Len(structure.AtomSites)
        /\ \A i \in 1..Len(structure.AtomSites) :
              /\ geometry[1].atoms[i].element = structure.AtomSites[i].TypeSymbol
              /\ geometry[1].atoms[i].coord = input[1].Coordinates[i]

\* C18: for a named structure with the cell lengths a, b, c, the engine
\* input has one coordinate per atom site, in the order of the sites, the
\* i-th being (FractX_i * a, FractY_i * b, FractZ_i * c); in the cubic cell
\* of 10 every component is the fraction times 10.  (Fractions and lengths
\* are in thousandths, coordinates in millionths.)
C18_CartesianIsFractionTimesCell ==
    (/\ input # << >>
     /\ structure.Name # <<"">>
     /\ DOMAIN structure.CellLength = CellLengthKeys)
      => /\ ~input[1].err
         /\ Len(input[1].Coordinates) = Len(structure.AtomSites)
         /\ \A i \in 1..Len(structure.AtomSites) :
               LET site == structure.AtomSites[i]
               IN  /\ input[1].Coordinates[i] =
                        <<site.FractX * structure.CellLength["_cell_length_a"],
                          site.FractY * structure.CellLength["_cell_length_b"],
                          site.FractZ * structure.CellLength["_cell_length_c"]>>
                   /\ structure.CellLength = Cubic10 =>
                        input[1].Coordinates[i] =
                            <<site.FractX * 10000, site.FractY * 10000,
                              site.FractZ * 10000>>
\* the engine input of the two-carbon structure in the cubic cell of 10 has
\* the coordinates (0,0,0) and (5,5,0), and that of a structure in the cell
\* 10 x 90 x 0.5 has been synthesized from three sites
C18_Witness ==
    /\ input # << >>
    /\ structure.Name = <<"test">>
    /\ structure.CellLength = Cubic10
    /\ structure.AtomSites = <<SiteC1, SiteC2>>
    /\ input[1].Coordinates = <<<<0, 0, 0>>, <<5000000, 5000000, 0>>>>

\* the engine input RunOptimization synthesizes for the job of handler h
\* (runner.go lines 41-50)
EngineInputOf(h) ==
    ToDFTBInput(ParseFromBase64(req[h].StructureFile).cif, req[h].Method,
                req[h].Fmax)
\* the job of handler h is the scenario's: the two-atom data_test text,
\* method GFN2-xTB, fmax 0.001
TwoAtomJob(h) ==
    /\ req[h].StructureFile = [b64 |-> TRUE, text |-> TwoAtomText]
    /\ req[h].Method = "GFN2-xTB"
    /\ req[h].Fmax = 10
\* the job of h was launched and answered, and neither the engine (nonzero
\* exit, missing artifact, timeout) nor the reading and writing of the
\* results failed
EngineSucceeded(h) ==
    /\ Returned(h)
    /\ Launched(h)
    /\ ~FailedAfterLaunch(h)
    /\ ~IsTimeoutError(resp[h].message)
    /\ resp[h].message \notin PostProcessErrors

\* C19: the two-atom job whose engine succeeds ends with status "success",
\* and the engine input synthesized for it has the coordinates (0,0,0) and
\* (5,5,0), one per atom row of the text.
C19_TwoAtomEndToEnd ==
    \A h \in Handlers :
        (TwoAtomJob(h) /\ EngineSucceeded(h))
          => /\ resp[h].status = "success"
             /\ ~EngineInputOf(h).err
             /\ EngineInputOf(h).Coordinates =
                    <<<<0, 0, 0>>, <<5000000, 5000000, 0>>>>

\* a text with no cell-parameter line and no atom-site information (no
\* loop_ and no _atom_site line)
LacksCellAndAtomSites(t) ==
    \A i \in 1..Len(t) :
        ~HasPrefixIn(t[i], CellLengthKeys \cup CellAngleKeys \cup LoopTokens
                            \cup {"_atom_site_label", "_atom_site_type_symbol",
                                  "_atom_site_fract_x", "_atom_site_fract_y",
                                  "_atom_site_fract_z", "_atom_site_u_iso_or_equiv",
                                  "_atom_site_adp_type"})

\* C20: a submission whose decoded text has neither cell parameters nor
\* atom-site information is answered with a validation error before the
\* job is taken on: no working directory is made and no engine started.
C20_PreflightRejectsEmptyStructure ==
    \A h \in Handlers :
        (/\ pc[h] # "idle"
         /\ req[h].StructureFile.b64
         /\ LacksCellAndAtomSites(req[h].StructureFile.text))
          => /\ pc[h] = "returned"
             /\ resp[h].kind = "bad_request"
             /\ gpc[h] = "idle"

\* the errors of the steps of RunOptimization before the launch: decoding,
\* synthesis, the two input files, the existence check of the engine
PreLaunchErrors ==
    {<<"failed to parse CIF file", "failed to decode base64 content">>,
     <<"failed to parse CIF file", "error reading CIF content">>,
     <<"failed to convert to DFTB+ input", "invalid CIF file">>,
     <<"failed to generate input files", "failed to write input file">>,
     <<"failed to generate input files", "failed to write geometry file">>,
     <<"DFTB+ calculation failed", "DFTB+ executable not found">>}
\* RunOptimization of h ended in a step before the launch: with one of the
\* errors above, or in the parser's crash on the text
FailedBeforeLaunch(h) ==
    /\ pc[h] \in {"returned", "panicked"}
    /\ (resp[h].message \in PreLaunchErrors \/ resp[h].kind = "panic")

\* C21: a job that failed in a step before the launch has an error result,
\* and no goroutine and no engine process was ever started for it.
C21_PreLaunchFailureIsErrorWithoutEngine ==
    \A h \in Handlers :
        FailedBeforeLaunch(h)
          => /\ resp[h].kind = "response"
             /\ resp[h].status = "error"
             /\ gpc[h] = "idle"
             /\ proc[h] = "none"

\* the engine of h starts in this step
EngineStarts(h) == proc[h] = "none" /\ proc'[h] # "none"

\* C22: when the engine of a job starts, the job directory exists and holds
\* dftb_in.hsd and geometry.gen; the engine runs in that directory (its
\* writes go there).
C22_LaunchAfterDirAndInputs ==
    [][\A h \in Handlers :
          EngineStarts(h)
            => /\ Dir(h) \in dirs
               /\ {"dftb_in.hsd", "geometry.gen"} \subseteq files[Dir(h)]
               /\ pc[h] \in {"select", "returned"}]_vars
\* an engine runs in a directory that holds the two input files
C22_Witness ==
    \E h \in Handlers :
        /\ proc[h] = "running"
        /\ Dir(h) \in dirs
        /\ {"dftb_in.hsd", "geometry.gen"} \subseteq files[Dir(h)]

\* the outcome of a returned job: completed, timed_out or failed
Outcome(h) ==
    IF resp[h].status = "success" THEN "completed"
    ELSE IF IsTimeoutError(resp[h].message) THEN "timed_out"
    ELSE "failed"

\* C23: every job whose handler waits in the select for its engine returns
\* in the end, also when the engine never exits, and once it has returned
\* its outcome stays what it is.
C23_LaunchedJobTerminatesOnce ==
    /\ \A h \in Handlers : (pc[h] = "select") ~> Returned(h)
    /\ [][\A h \in Handlers :
             Returned(h) => (pc'[h] = "returned" /\ resp'[h] = resp[h])]_vars
\* a job timed out while its engine was running and never exited
C23_Witness ==
    \E h \in Handlers :
        /\ TimedOut(h)
        /\ Outcome(h) = "timed_out"
        /\ proc[h] \in {"running", "killed"}

\* a step of optimizeStructure, of RunOptimization with its goroutine and
\* engine, or of the status endpoint (the only step of an idle handler is
\* Submit, which leaves idle)
PipelineOrStatusStep ==
    \/ \E h \in Handlers : (pc[h] = "idle" => pc'[h] # "idle") /\ RunStep(h)
    \/ \E id \in StatusIDs : StatusQuery(id)
\* a step of the os.RemoveAll that cleanupOldFiles or Cleanup began on a
\* directory it found old
RemoveAllStep ==
    \E d \in RequestDirs :
        /\ removing[d] \in Removers
        /\ RemoveEntry(d) \/ RemoveDir(d)
NothingRemoved ==
    /\ dirs \subseteq dirs'
    /\ \A d \in DOMAIN files : files[d] \subseteq files'[d]

\* C24: no step of the pipeline and no status lookup removes a job
\* directory or a file in one, whatever the outcome of the job; a step
\* that removes one is a step of the os.RemoveAll of a retention sweep
\* (cleanupOldFiles, or DFTBRunner.Cleanup).
C24_OnlySweepRemoves ==
    [][\/ NothingRemoved
       \/ RemoveAllStep /\ ~PipelineOrStatusStep]_vars
\* a job has ended, in error or in success, and its directory and files
\* are there
C24_Witness ==
    /\ pc[1] = "returned"
    /\ resp[1].kind = "response"
    /\ Dir(1) \in dirs
    /\ {"dftb_in.hsd", "geometry.gen"} \subseteq files[Dir(1)]

\* C25: whatever the configured timeout, a directory the sweep removes is
\* not the directory of a job whose handler still waits for its running
\* engine.
C25_SweepSparesRunningJobs ==
    [][\A d \in dirs \ dirs' :
          ~\E h \in Handlers :
              /\ pc[h] = "select"
              /\ Dir(h) = d
              /\ proc[h] = "running"]_vars

\* the state of the job of handler h: its request, position, answer,
\* goroutine, engine and channel
JobState(h) == <<req[h], pc[h], resp[h], gpc[h], proc[h], done[h]>>
JobChanges(h) == <<req'[h], pc'[h], resp'[h], gpc'[h], proc'[h], done'[h]>> # JobState(h)
\* the directories whose existence or files this step changes
DirsChanged ==
    {d \in DOMAIN files : files'[d] # files[d] \/ (d \in dirs') # (d \in dirs)}

\* C26: a step changes the state of one job at most, and directories and
\* files only in that job's directory, which is the directory of no job in
\* flight with another request identifier; a step that changes no job's
\* state (a write of an engine) changes only the directory of a job whose
\* engine runs, and that is the directory of no job in flight with another
\* request identifier.  So no step of a job, its failure and its timeout
\* included, touches the directory, the engine or the result of a job with
\* another request identifier.
C26_JobsIsolated ==
    [][/\ \A h, g \in Handlers : (JobChanges(h) /\ JobChanges(g)) => h = g
       /\ \A h \in Handlers :
             JobChanges(h) =>
                /\ DirsChanged \subseteq {RequestDir(req'[h].RequestID)}
                /\ \A g \in Handlers :
                      (InFlight(g) /\ req[g].RequestID # req'[h].RequestID)
                         => Dir(g) \notin DirsChanged
       /\ (\A h \in Handlers : ~JobChanges(h))
             => \A d \in DirsChanged :
                   /\ DirsChanged = {d}
                   /\ \E h \in Handlers :
                         /\ Dir(h) = d
                         /\ proc[h] = "running"
                         /\ \A g \in Handlers :
                               (InFlight(g) /\ req[g].RequestID # req[h].RequestID)
                                  => Dir(g) # d]_vars

\* the index of the last data_ line of text t, 0 if it has none
LastDataLine(t) ==
    LET idx == {i \in 1..Len(t) : IsDataLine(t[i])}
    IN  IF idx = {} THEN 0 ELSE CHOOSE i \in idx : \A j \in idx : j <= i
\* line i of t is a key/value line of the last block, outside a loop: two
\* fields or more, after the last data_ line with no loop_ line between,
\* and not a data_, loop_ or comment line itself
KeyValueLine(t, i) ==
    /\ Len(Fields(t[i])) >= 2
    /\ ~HasPrefixIn(t[i], CommentTokens \cup DataTokens \cup LoopTokens)
    /\ LastDataLine(t) > 0
    /\ LastDataLine(t) < i
    /\ \A j \in LastDataLine(t)..i : ~HasPrefixIn(t[j], LoopTokens)
\* the value of a key/value line as the claim wants it recorded
Unquoted(value) ==
    IF value = <<"'x'">> THEN <<"x">>
    ELSE IF value = <<"\"y\"">> THEN <<"y">>
    ELSE value

\* C27: every key/value line outside a loop whose key is not a cell key is
\* in the metadata of the returned structure, under its key, its value
\* without the delimiting quotes; keys with a leading underscore included.
C27_KeyValueLinesAreMetadata ==
    (parsed # Scanning /\ parsed.kind = "ok") =>
        \A i \in 1..Len(text) :
            (/\ KeyValueLine(text, i)
             /\ text[i][1] \notin CellLengthKeys \cup CellAngleKeys
             /\ \A j \in (i + 1)..Len(text) : ~HasPrefixIn(text[j], {text[i][1]}))
              => /\ text[i][1] \in DOMAIN parsed.cif.Metadata
                 /\ parsed.cif.Metadata[text[i][1]] = Unquoted(Tail(Fields(text[i])))

\* the keys of the key/value lines of t after line k
KeysAfter(t, k) == {KeyOf(t[i]) : i \in {j \in (k + 1)..Len(t) : ContainsSpace(t[j])}}

\* C28: of a text with several data_ declarations the returned structure
\* is that of the last one: its name, and cell fields and metadata only
\* from lines after it; it is the structure the text from the last
\* declaration on gives alone.
C28_LastBlockWins ==
    (parsed # Scanning /\ parsed.kind = "ok" /\ LastDataLine(text) > 0) =>
        LET k == LastDataLine(text)
        IN  /\ parsed.cif.Name = <<TrimDataPrefix(text[k][1])>> \o Tail(text[k])
            /\ DOMAIN parsed.cif.Metadata \subseteq KeysAfter(text, k)
            /\ DOMAIN parsed.cif.CellLength \subseteq KeysAfter(text, k)
            /\ DOMAIN parsed.cif.CellAngle \subseteq KeysAfter(text, k)
            /\ parsed.cif = ParseFromString(SubSeq(text, k, Len(text))).cif
\* a text with two declarations and a line recorded for the first was
\* parsed, and the structure is the second block, empty
C28_Witness ==
    /\ parsed # Scanning
    /\ parsed.kind = "ok"
    /\ Len(text) = 3
    /\ text[1] = <<"data_test">>
    /\ text[2] \in {<<"title", "\"y\"">>, <<"_cell_length_a", "10">>}
    /\ text[3] = <<"data_two">>
    /\ parsed.cif = NewDataBlock(<<"two">>)

\* the labels of the rows of t with one field per loop header, in order
WellFormedRowLines(t) ==
    SelectSeq(t, LAMBDA l : l \in GoodRows \cup BadRows /\ Len(l) = HeaderCount(t))
WellFormedLabels(t) ==
    [i \in 1..Len(WellFormedRowLines(t)) |-> WellFormedRowLines(t)[i][1]]

\* C29: of an atom-site loop the structure keeps exactly the rows with one
\* field per header, in order: its atom-site labels are the labels of the
\* well-formed rows, whatever malformed rows stand between them.
C29_MalformedRowsDroppedOthersKept ==
    (parsed # Scanning /\ parsed.kind = "ok" /\ text \in AtomLoopTexts) =>
        [i \in 1..Len(parsed.cif.AtomSites) |-> parsed.cif.AtomSites[i].Label]
            = WellFormedLabels(text)

\* position of the first atom site with type symbol e
FirstOccurrence(sites, e) ==
    CHOOSE i \in 1..Len(sites) :
        /\ sites[i].TypeSymbol = e
        /\ \A j \in 1..(i - 1) : sites[j].TypeSymbol # e

\* C30: the element list of the engine input holds each type symbol of the
\* atom sites exactly once, ordered by first occurrence.
C30_ElementsOnceInFirstOccurrenceOrder ==
    (input # << >> /\ ~input[1].err) =>
        LET sites == structure.AtomSites
            els == input[1].Elements
        IN  /\ Range(els) = {sites[i].TypeSymbol : i \in 1..Len(sites)}
            /\ \A i, j \in 1..Len(els) :
                   i < j => /\ els[i] # els[j]
                            /\ FirstOccurrence(sites, els[i])
                                  < FirstOccurrence(sites, els[j])
\* hydrogen, carbon, hydrogen gives the elements H, C
C30_Witness ==
    /\ input # << >>
    /\ ~input[1].err
    /\ structure.AtomSites = <<SiteH1, SiteC1, SiteH1>>
    /\ input[1].Elements = <<"H", "C">>

\* C31: a job that ends in the timer branch of the select answers the error
\* "timed out after N seconds" with N the configured timeout, and a job that
\* ends with an error anywhere else (nonzero exit, missing artifact, missing
\* engine, a step before the launch or after the calculation) answers a
\* message without that text.
C31_TimeoutMessageOnlyOnTimeout ==
    [][\A h \in Handlers :
          Returns(h) =>
             /\ pc[h] = "select" =>
                   /\ resp'[h].status = "error"
                   /\ resp'[h].message =
                        <<"DFTB+ calculation failed",
                          "DFTB+ calculation timed out after", cfgTimeout>>
             /\ pc[h] # "select" => ~IsTimeoutError(resp'[h].message)]_vars
\* with a timeout of 25 hours a job timed out, its message naming 90000
\* seconds
C31_Witness ==
    /\ cfgTimeout = 25 * HourSeconds
    /\ TimedOut(1)
    /\ resp[1].message[3] = 90000
    /\ waited[1] = 25

\* C32: with the cache enabled, a call of the tool with the structure_file,
\* method and fmax of an earlier call that was answered with success within
\* the TTL makes no call of the Go service.
C32_RepeatAnsweredFromCache ==
    [][(/\ toolCalls' = toolCalls + 1
        /\ cacheEnabled
        /\ toolArgs'.structure_file # ""
        /\ answered[generateCacheKey(toolArgs')] = "fresh")
          => goCalls' = goCalls]_vars

\* C33: GetStatus of a job that ended failed (nonzero exit, missing
\* artifact) or timed out is "error".
C33_FailedJobStatusIsError ==
    \A h \in Handlers :
        (TimedOut(h) \/ FailedAfterLaunch(h)) => GetStatus(req[h].RequestID) = "error"

\* C34: every answer of the status endpoint is decided by three facts, the
\* directory, dftb_out.hsd and error.log being there: "not_found" iff the
\* directory is not; "running" iff the directory is and dftb_out.hsd is
\* not; "error" iff all three are; "completed" iff the directory and
\* dftb_out.hsd are and error.log is not; and the lookup changes no
\* directory and no file.
C34_StatusIsTableOfThreeFacts ==
    [][statusReply' # statusReply =>
          LET id == statusReply'.request_id
              st == statusReply'.status
              d == JobDirExists(id)
              o == InJobDir(id, "dftb_out.hsd")
              e == InJobDir(id, "error.log")
          IN  /\ st \in {"not_found", "running", "error", "completed"}
              /\ (st = "not_found") <=> ~d
              /\ (st = "running") <=> (d /\ ~o)
              /\ (st = "error") <=> (d /\ o /\ e)
              /\ (st = "completed") <=> (d /\ o /\ ~e)
              /\ dirs' = dirs
              /\ files' = files]_vars

\* C35: once RunOptimization has returned for a job and no other job works
\* in its directory, GetStatus of the job is not "running".
C35_NotRunningAfterReturn ==
    \A h \in Handlers :
        (/\ Returned(h)
         /\ resp[h].kind = "response"
         /\ \A g \in Handlers \ {h} : InFlight(g) => Dir(g) # Dir(h))
          => GetStatus(req[h].RequestID) # "running"

\* C36 (as claimed): a job whose engine exited with status 0 while the
\* select waited, before the timer fired, dftb_out.hsd being in the job
\* directory, is not reported timed out.
C36_CleanExitNeverTimedOut ==
    [][\A h \in Handlers :
          (Returns(h) /\ exitedInTime[h] /\ OutputIn(Dir(h)))
            => ~IsTimeoutError(resp'[h].message)]_vars

\* C36 (amended): a job whose engine exited with status 0 and whose exit
\* was delivered on done to the waiting select is not reported timed out:
\* after the delivery the timer branch is not taken.
C36_DeliveredExitNeverTimedOut ==
    [][\A h \in Handlers :
          (Returns(h) /\ exitedInTime[h] /\ done[h] = "nil")
            => ~IsTimeoutError(resp'[h].message)]_vars
\* the exit of the engine was delivered to the select of a job with a due
\* timer, and the job returned completed
C36_Witness ==
    /\ Completed(1)
    /\ exitedInTime[1]
    /\ done[1] = "nil"
    /\ gpc[1] = "finished"
    /\ TimerDue(1)
    /\ OutputIn(Dir(1))

\* C37: after a job was answered with the timeout error, the goroutine of
\* cmd.Run ends once the engine has ended: its send on done completes with
\* no receiver left.
C37_SendAfterTimeoutCompletes ==
    \A h \in FairHandlers :
        (/\ TimedOut(h)
         /\ gpc[h] = "waiting"
         /\ proc[h] \in {"exited_ok", "exited_fail", "killed"})
          ~> (gpc[h] = "finished" /\ done[h] # "empty")
\* the goroutine of a timed-out job, its engine killed, has sent on done
\* and ended
C37_Witness ==
    /\ TimedOut(1)
    /\ proc[1] = "killed"
    /\ gpc[1] = "finished"
    /\ done[1] = "err"

\* path p lies below directory d, and is not d
ProperDescendant(p, d) ==
    /\ Len(p) > Len(d)
    /\ SubSeq(p, 1, Len(d)) = d
    /\ ".." \notin Range(p)

\* C38: the request directory of an accepted request_id lies below the work
\* root, is not the work root, and is the request directory of no other
\* request_id.
C38_RequestDirInsideWorkRoot ==
    requestDir.set =>
        /\ ProperDescendant(requestDir.path, Clean(<< >>, WorkDir))
        /\ \A other \in PathIDs \ {jobID} :
               Join(WorkDir, other) # requestDir.path

\* C39: a cell-length line after the rows of a loop, in the same data
\* block, ends the loop and sets the cell length: the structure has
\* _cell_length_a = 10.
C39_CellLineAfterLoopSetsCell ==
    (parsed # Scanning /\ text \in LoopThenCellTexts) =>
        /\ parsed.kind = "ok"
        /\ "_cell_length_a" \in DOMAIN parsed.cif.CellLength
        /\ parsed.cif.CellLength["_cell_length_a"] = ParseFloat(<<"10">>)

====
